---- MODULE Spec2Model ----
(***************************************************************************)
(* SignalFence: a per-key token-bucket rate limiter.                       *)
(*                                                                         *)
(* Two implementations live in the repository and both are modelled:       *)
(*   - pkg/signalfence: Bucket (mutex-protected, lazy refill),             *)
(*     InMemoryStore (RWMutex map key -> *bucketEntry, idle eviction) and  *)
(*     rateLimiter (Allow / Middleware);                                   *)
(*   - core + store + api/middleware: the stateless TokenBucket.Check      *)
(*     threaded through MemoryStore.Get / Set.                             *)
(*                                                                         *)
(* Time is a discrete clock `now` (one tick = the resolution of            *)
(* time.Duration).  Token counts (float64 in the code) are kept exactly,   *)
(* as integers in units of 1/TokenUnit of a token; a refill rate is an     *)
(* integer number of such units per tick, so every product                 *)
(* elapsed * refillRate of the code is exact here.                         *)
(***************************************************************************)
EXTENDS Integers, Sequences, FiniteSets, TLC

\* ------------------------------------------------------------------ bounds
TokenUnit == 2          \* token units per whole token (fractional tokens)
MaxCapacity == 2        \* capacities 1..MaxCapacity are tried
MaxRate == 3            \* refill rates 1 and MaxRate units per tick are tried
MaxTime == 4            \* the clock runs 0..MaxTime
MaxCalls == 2           \* Allow() calls each goroutine issues (M)
MaxN == 2               \* AllowN(n) is called with n in 1..MaxN
MaxAge == 1             \* cleanupAge values 0..MaxAge are tried
MaxBuckets == 2         \* buckets a store allocates over a run
MaxStoreTime == 2       \* the clock of a store run goes 0..MaxStoreTime
MaxInterval == 1        \* StartBackgroundCleanup is called with interval 0..MaxInterval
MaxCancels == 2         \* times the cancellation function is invoked

Procs == {"g1", "g2"}   \* goroutines (N = 2)
Keys == {"k1", "k2"}    \* rate-limit keys
Capacities == 1..MaxCapacity
RefillRates == {1, MaxRate}
CleanupAges == 0..MaxAge
NoBucket == 0           \* nil *bucketEntry / absent map entry

VARIABLES
    now,        \* time.Now()
    heap,       \* allocated bucketEntry objects (each owning its Bucket), by address 1..Len(heap)
    buckets,    \* InMemoryStore.buckets: key -> address of its bucketEntry, or NoBucket
                \* (store.MemoryStore.buckets: key -> BucketState, or Nil)
    config,     \* InMemoryStore.config (BucketConfig), cleanupAge and lastCleanup
                \* (core.TokenBucket.config)
    pc,         \* position of each goroutine
    loc,        \* locals of each goroutine
    last,       \* observation: the last completed call, its inputs and its result
    hist,       \* observation: counters and per-key history
    bg          \* the background cleanup: its ticker, done channel and goroutine

vars == <<now, heap, buckets, config, pc, loc, last, hist, bg>>

Min(a, b) == IF a <= b THEN a ELSE b

RECURSIVE SumOver(_, _)
SumOver(f, S) == IF S = {} THEN 0
                 ELSE LET x == CHOOSE y \in S : TRUE IN f[x] + SumOver(f, S \ {x})

\* ------------------------------------------------------------------ Bucket
\* A constructor that starts the bucket one token short of full.
NewBucketShort(capacity, refillRate, t) ==
    [capacity |-> capacity,
     tokens |-> (capacity - 1) * TokenUnit,
     refillRate |-> refillRate,
     lastRefillTime |-> t,
     lastAccessed |-> t]

\* token_bucket.go: NewBucket. A bucket starts full, refilled "now".
\* The entry field (lastAccessed) of the store's bucketEntry shares the record.
NewBucket(capacity, refillRate, t) ==
    [capacity |-> capacity,
     tokens |-> capacity * TokenUnit,
     refillRate |-> refillRate,
     lastRefillTime |-> t,
     lastAccessed |-> t]

\* A refill that forgets the cap at capacity.
refillNoCap(b, t) ==
    [b EXCEPT !.tokens = b.tokens + (t - b.lastRefillTime) * b.refillRate,
              !.lastRefillTime = t]

\* A refill that does not move lastRefillTime: the same elapsed time is
\* credited again by the next call.
refillKeepStamp(b, t) ==
    LET added == b.tokens + (t - b.lastRefillTime) * b.refillRate
    IN [b EXCEPT !.tokens = IF added > b.capacity * TokenUnit
                            THEN b.capacity * TokenUnit ELSE added]

\* token_bucket.go: Bucket.refill (called with b.mu held).
refill(b, t) ==
    LET elapsed == t - b.lastRefillTime
        tokensToAdd == elapsed * b.refillRate
        added == b.tokens + tokensToAdd
    IN [b EXCEPT !.tokens = IF added > b.capacity * TokenUnit
                            THEN b.capacity * TokenUnit ELSE added,
                 !.lastRefillTime = t]

\* An AllowN that admits whenever any token is left.
AllowNAnyToken(b, n, t) ==
    LET r == refill(b, t)
    IN IF r.tokens > 0
       THEN [bucket |-> [r EXCEPT !.tokens = r.tokens - n * TokenUnit], ret |-> TRUE]
       ELSE [bucket |-> r, ret |-> FALSE]

\* An AllowN that admits without taking the tokens (a lost decrement).
AllowNNoConsume(b, n, t) ==
    LET r == refill(b, t)
    IN IF r.tokens >= n * TokenUnit
       THEN [bucket |-> r, ret |-> TRUE]
       ELSE [bucket |-> r, ret |-> FALSE]

\* token_bucket.go: Bucket.AllowN. b.mu is held from entry to return, so the
\* refill, the comparison and the subtraction are one atomic step.
AllowN(b, n, t) ==
    LET r == refill(b, t)
    IN IF r.tokens >= n * TokenUnit
       THEN [bucket |-> [r EXCEPT !.tokens = r.tokens - n * TokenUnit], ret |-> TRUE]
       ELSE [bucket |-> r, ret |-> FALSE]

\* token_bucket.go: Bucket.Allow.
Allow(b, t) == AllowN(b, 1, t)

\* token_bucket.go: Bucket.Remaining. int64(b.tokens) truncates toward zero.
Remaining(b, t) ==
    LET r == refill(b, t)
    IN [bucket |-> r, ret |-> r.tokens \div TokenUnit]

\* token_bucket.go: Bucket.RetryAfter. time.Duration(seconds * 1e9) truncates
\* the wait to whole ticks.
RetryAfter(b, t) ==
    LET r == refill(b, t)
    IN IF r.tokens >= 1 * TokenUnit
       THEN [bucket |-> r, ret |-> 0]
       ELSE LET tokensNeeded == 1 * TokenUnit - r.tokens
            IN [bucket |-> r, ret |-> tokensNeeded \div r.refillRate]

\* token_bucket.go: Bucket.Capacity.
Capacity(b) == b.capacity

\* ------------------------------------------------------------------ clock
\* The clock advances by any positive amount between two steps.
Advance(horizon) ==
    /\ \E d \in 1..horizon :
         /\ now + d <= horizon
         /\ now' = now + d
    /\ UNCHANGED <<heap, buckets, config, pc, loc, last, hist, bg>>

Tick == Advance(MaxTime)

NoCall == [op |-> "none"]
\* StartBackgroundCleanup has not been called: no ticker, no channel, no goroutine.
NoBackground == [handle |-> "none", interval |-> 0, ticker |-> "none", tick |-> 0,
                 done |-> "none", pc |-> "none", cancels |-> 0, panicked |-> FALSE]
NoConfig == [capacity |-> 0, refillRate |-> 0, cleanupAge |-> 0, lastCleanup |-> 0]

\* ------------------------------------------- one Bucket, many goroutines
\* A bucket built by NewBucket at time 0 and shared by the goroutines Procs.
\* hist.issued[g] counts g's Allow() calls, hist.admitted those that returned
\* true, hist.bulk the AllowN(n > 1) calls made.
TheBucket == heap[1]

InitBucket ==
    /\ now = 0
    /\ bg = NoBackground
    /\ \E c \in Capacities, r \in RefillRates : heap = <<NewBucket(c, r, 0)>>
    /\ buckets = [k \in Keys |-> NoBucket]
    /\ config = NoConfig
    /\ pc = [g \in Procs |-> "idle"]
    /\ loc = [g \in Procs |-> NoCall]
    /\ last = NoCall
    /\ hist = [issued |-> [g \in Procs |-> 0], admitted |-> 0, bulk |-> 0]

\* g calls bucket.Allow().
BucketAllow(g) ==
    /\ hist.issued[g] < MaxCalls
    /\ LET res == Allow(TheBucket, now)
       IN /\ heap' = [heap EXCEPT ![1] = res.bucket]
          /\ last' = [op |-> "AllowN", n |-> 1, before |-> TheBucket, at |-> now,
                      ret |-> res.ret]
          /\ hist' = [hist EXCEPT !.issued[g] = @ + 1,
                                  !.admitted = @ + (IF res.ret THEN 1 ELSE 0)]
    /\ UNCHANGED <<now, buckets, config, pc, loc, bg>>

\* g calls bucket.AllowN(n) with n > 1.
BucketAllowN(g) ==
    /\ hist.bulk < MaxCalls
    /\ \E n \in 2..MaxN :
         LET res == AllowN(TheBucket, n, now)
         IN /\ heap' = [heap EXCEPT ![1] = res.bucket]
            /\ last' = [op |-> "AllowN", n |-> n, before |-> TheBucket, at |-> now,
                        ret |-> res.ret]
            /\ hist' = [hist EXCEPT !.bulk = @ + 1]
    /\ UNCHANGED <<now, buckets, config, pc, loc, bg>>

\* g calls bucket.Remaining().
BucketRemaining(g) ==
    /\ LET res == Remaining(TheBucket, now)
       IN /\ heap' = [heap EXCEPT ![1] = res.bucket]
          /\ last' = [op |-> "Remaining", n |-> 0, before |-> TheBucket, at |-> now,
                      ret |-> res.ret]
    /\ UNCHANGED <<now, buckets, config, pc, loc, hist, bg>>

\* g calls bucket.RetryAfter().
BucketRetryAfter(g) ==
    /\ LET res == RetryAfter(TheBucket, now)
       IN /\ heap' = [heap EXCEPT ![1] = res.bucket]
          /\ last' = [op |-> "RetryAfter", n |-> 0, before |-> TheBucket, at |-> now,
                      ret |-> res.ret]
    /\ UNCHANGED <<now, buckets, config, pc, loc, hist, bg>>

NextBucket ==
    \/ Tick
    \/ \E g \in Procs : BucketAllow(g)
    \/ \E g \in Procs : BucketAllowN(g)
    \/ \E g \in Procs : BucketRemaining(g)
    \/ \E g \in Procs : BucketRetryAfter(g)

SpecBucket == InitBucket /\ [][NextBucket]_vars

\* ---------------------------------------------------------- InMemoryStore
\* Goroutine positions inside GetBucket:
\*   "idle"    not in a call
\*   "touch"   the fast-path lookup (RLock .. RUnlock) found an entry; the
\*             goroutine holds the *bucketEntry and has not yet set lastAccessed
\*   "create"  the fast-path lookup found nothing; the goroutine is about to
\*             take the write lock
\*   "have"    GetBucket has returned; the goroutine holds the *Bucket
\* Observations kept in hist:
\*   requested    keys passed to GetBucket so far
\*   lastGet[k]   time the latest GetBucket(k) returned (-1: none since k's
\*                entry was last evicted)
\*   lastRet[k]   bucket the latest GetBucket(k) returned, NoBucket once k's
\*                entry was evicted since (or during that call)
\*   evicted      addresses of the entries Cleanup has removed
\*   evictedKeys  keys whose entry Cleanup has removed at some time
\* and in loc[g], beside the call's own locals (key, entry):
\*   calledAt       time GetBucket was invoked
\*   slow           the call took the slow (write-lock) path
\*   evictedDuring  Cleanup removed the key's entry while the call was running

\* unnamed/part_001: InMemoryStore.Count.
Count == Cardinality({k \in Keys : buckets[k] # NoBucket})

NoLocals == [key |-> "", entry |-> NoBucket]

InitStore ==
    /\ now = 0
    /\ bg = NoBackground
    /\ heap = <<>>
    /\ buckets = [k \in Keys |-> NoBucket]
    /\ \E a \in CleanupAges :
         config = [capacity |-> MaxCapacity, refillRate |-> 1, cleanupAge |-> a,
                   lastCleanup |-> 0]
    /\ pc = [g \in Procs |-> "idle"]
    /\ loc = [g \in Procs |-> NoLocals]
    /\ last = NoCall
    /\ hist = [requested |-> {},
               lastGet |-> [k \in Keys |-> -1],
               lastRet |-> [k \in Keys |-> NoBucket],
               evicted |-> {},
               evictedKeys |-> {}]

\* unnamed/part_001: GetBucket(key), the fast path's lookup under the read lock.
GetBucketLookup(g, key) ==
    /\ pc[g] = "idle"
    /\ LET entry == buckets[key]
           exists == entry # NoBucket
       IN /\ pc' = [pc EXCEPT ![g] = IF exists THEN "touch" ELSE "create"]
          /\ loc' = [loc EXCEPT ![g] =
                       [key |-> key, entry |-> entry, calledAt |-> now,
                        slow |-> ~exists, evictedDuring |-> FALSE]]
          /\ hist' = [hist EXCEPT !.requested = @ \cup {key}]
    /\ UNCHANGED <<now, heap, buckets, config, last, bg>>

\* The locals a goroutine keeps once GetBucket has returned `ret`.
Holding(g, ret) ==
    [loc EXCEPT ![g] = [key |-> loc[g].key, entry |-> ret, slow |-> loc[g].slow]]

\* What a returning GetBucket of goroutine g leaves in the observations.
ReturnedHist(g, ret) ==
    [hist EXCEPT !.lastGet[loc[g].key] = now,
                 !.lastRet[loc[g].key] = IF loc[g].evictedDuring THEN NoBucket ELSE ret]

\* A fast path that hands out a rebuilt (full) bucket for the entry found.
GetBucketTouchReset(g) ==
    /\ pc[g] = "touch"
    /\ LET entry == loc[g].entry
       IN /\ heap' = [heap EXCEPT ![entry] =
                        NewBucket(config.capacity, config.refillRate, now)]
          /\ last' = [op |-> "GetBucket", ret |-> entry]
          /\ hist' = ReturnedHist(g, entry)
    /\ pc' = [pc EXCEPT ![g] = "have"]
    /\ loc' = Holding(g, loc[g].entry)
    /\ UNCHANGED <<now, buckets, config, bg>>

\* unnamed/part_001: GetBucket, the fast path after the lookup: set the entry's
\* lastAccessed under entry.mu and return its bucket.
GetBucketTouch(g) ==
    /\ pc[g] = "touch"
    /\ LET entry == loc[g].entry
       IN /\ heap' = [heap EXCEPT ![entry].lastAccessed = now]
          /\ last' = [op |-> "GetBucket", ret |-> entry]
          /\ hist' = ReturnedHist(g, entry)
    /\ pc' = [pc EXCEPT ![g] = "have"]
    /\ loc' = Holding(g, loc[g].entry)
    /\ UNCHANGED <<now, buckets, config, bg>>

\* A slow path that inserts a new bucket without looking again.
GetBucketCreateNoRecheck(g) ==
    /\ pc[g] = "create"
    /\ Len(heap) < MaxBuckets
    /\ LET key == loc[g].key
           bucket == NewBucket(config.capacity, config.refillRate, now)
       IN /\ heap' = Append(heap, bucket)
          /\ buckets' = [buckets EXCEPT ![key] = Len(heap) + 1]
          /\ loc' = Holding(g, Len(heap) + 1)
          /\ last' = [op |-> "GetBucket", ret |-> Len(heap) + 1]
          /\ hist' = ReturnedHist(g, Len(heap) + 1)
    /\ pc' = [pc EXCEPT ![g] = "have"]
    /\ UNCHANGED <<now, config, bg>>

\* A slow path that hands every new key the store's first bucket.
GetBucketCreateShared(g) ==
    /\ pc[g] = "create"
    /\ LET key == loc[g].key
           entry == IF Len(heap) > 0 THEN 1 ELSE Len(heap) + 1
       IN /\ heap' = IF Len(heap) > 0
                     THEN [heap EXCEPT ![1].lastAccessed = now]
                     ELSE Append(heap, NewBucket(config.capacity, config.refillRate, now))
          /\ buckets' = [buckets EXCEPT ![key] = entry]
          /\ loc' = Holding(g, entry)
          /\ last' = [op |-> "GetBucket", ret |-> entry]
          /\ hist' = ReturnedHist(g, entry)
    /\ pc' = [pc EXCEPT ![g] = "have"]
    /\ UNCHANGED <<now, config, bg>>

\* A slow path that returns its new bucket without storing the entry in the map.
GetBucketCreateDetached(g) ==
    /\ pc[g] = "create"
    /\ LET key == loc[g].key
           entry == buckets[key]
       IN IF entry # NoBucket
          THEN /\ heap' = [heap EXCEPT ![entry].lastAccessed = now]
               /\ loc' = Holding(g, entry)
               /\ last' = [op |-> "GetBucket", ret |-> entry]
               /\ hist' = ReturnedHist(g, entry)
          ELSE /\ Len(heap) < MaxBuckets
               /\ LET bucket == NewBucket(config.capacity, config.refillRate, now)
                  IN /\ heap' = Append(heap, bucket)
                     /\ loc' = Holding(g, Len(heap) + 1)
                     /\ last' = [op |-> "GetBucket", ret |-> Len(heap) + 1]
                     /\ hist' = ReturnedHist(g, Len(heap) + 1)
    /\ pc' = [pc EXCEPT ![g] = "have"]
    /\ UNCHANGED <<now, buckets, config, bg>>

\* unnamed/part_001: GetBucket, the slow path, all of it under the write lock: look
\* again, and either touch the entry another goroutine inserted or build a new
\* full bucket and insert it.
GetBucketCreate(g) ==
    /\ pc[g] = "create"
    /\ LET key == loc[g].key
           entry == buckets[key]
       IN IF entry # NoBucket
          THEN /\ heap' = [heap EXCEPT ![entry].lastAccessed = now]
               /\ loc' = Holding(g, entry)
               /\ last' = [op |-> "GetBucket", ret |-> entry]
               /\ hist' = ReturnedHist(g, entry)
               /\ UNCHANGED buckets
          ELSE /\ Len(heap) < MaxBuckets
               /\ LET bucket == NewBucket(config.capacity, config.refillRate, now)
                  IN /\ heap' = Append(heap, bucket)
                     /\ buckets' = [buckets EXCEPT ![key] = Len(heap) + 1]
                     /\ loc' = Holding(g, Len(heap) + 1)
                     /\ last' = [op |-> "GetBucket", ret |-> Len(heap) + 1]
                     /\ hist' = ReturnedHist(g, Len(heap) + 1)
    /\ pc' = [pc EXCEPT ![g] = "have"]
    /\ UNCHANGED <<now, config, bg>>

\* An idle test that also evicts the entry accessed exactly at the cutoff.
ExpiredInclusive(lastAccessed, cutoff) == lastAccessed <= cutoff

\* An idle test that keeps an entry one tick too long.
ExpiredLate(lastAccessed, cutoff) == lastAccessed + 1 < cutoff

\* unnamed/part_001: Cleanup, lastAccessed.Before(cutoff).
Expired(lastAccessed, cutoff) == lastAccessed < cutoff

\* A Cleanup without the cleanupAge == 0 early return.
CleanupAlwaysSweeps ==
    LET cutoff == now - config.cleanupAge
        removedKeys == {k \in Keys : /\ buckets[k] # NoBucket
                                     /\ Expired(heap[buckets[k]].lastAccessed, cutoff)}
        removed == Cardinality(removedKeys)
    IN /\ buckets' = [k \in Keys |-> IF k \in removedKeys THEN NoBucket ELSE buckets[k]]
       /\ config' = [config EXCEPT !.lastCleanup = now]
       /\ last' = [op |-> "Cleanup", ret |-> removed]
       /\ loc' = [g \in Procs |->
                    IF pc[g] \in {"touch", "create"} /\ loc[g].key \in removedKeys
                    THEN [loc[g] EXCEPT !.evictedDuring = TRUE] ELSE loc[g]]
       /\ hist' = [hist EXCEPT
                     !.evicted = @ \cup {buckets[k] : k \in removedKeys},
                     !.evictedKeys = @ \cup removedKeys,
                     !.lastGet = [k \in Keys |-> IF k \in removedKeys
                                                 THEN -1 ELSE @[k]],
                     !.lastRet = [k \in Keys |-> IF k \in removedKeys
                                                 THEN NoBucket ELSE @[k]]]
       /\ UNCHANGED <<now, heap, pc>>

\* unnamed/part_001: InMemoryStore.Cleanup, under the write lock.
Cleanup ==
    LET cutoff == now - config.cleanupAge
        removedKeys == {k \in Keys : /\ buckets[k] # NoBucket
                                     /\ Expired(heap[buckets[k]].lastAccessed, cutoff)}
        removed == Cardinality(removedKeys)
    IN IF config.cleanupAge = 0
       THEN /\ last' = [op |-> "Cleanup", ret |-> 0]
            /\ UNCHANGED <<now, heap, buckets, config, pc, loc, hist>>
       ELSE /\ buckets' = [k \in Keys |-> IF k \in removedKeys THEN NoBucket ELSE buckets[k]]
            /\ config' = [config EXCEPT !.lastCleanup = now]
            /\ last' = [op |-> "Cleanup", ret |-> removed]
            /\ loc' = [g \in Procs |->
                         IF pc[g] \in {"touch", "create"} /\ loc[g].key \in removedKeys
                         THEN [loc[g] EXCEPT !.evictedDuring = TRUE] ELSE loc[g]]
            /\ hist' = [hist EXCEPT
                          !.evicted = @ \cup {buckets[k] : k \in removedKeys},
                          !.evictedKeys = @ \cup removedKeys,
                          !.lastGet = [k \in Keys |-> IF k \in removedKeys
                                                      THEN -1 ELSE @[k]],
                          !.lastRet = [k \in Keys |-> IF k \in removedKeys
                                                      THEN NoBucket ELSE @[k]]]
            /\ UNCHANGED <<now, heap, pc>>

\* A caller (not the background goroutine) invokes store.Cleanup().
CallCleanup == Cleanup /\ UNCHANGED bg

\* A caller invokes store.GetBucket with some key.
CallGetBucket(g) == \E key \in Keys : GetBucketLookup(g, key)

\* The caller drops the *Bucket it was handed.
DropBucket(g) ==
    /\ pc[g] = "have"
    /\ pc' = [pc EXCEPT ![g] = "idle"]
    /\ loc' = [loc EXCEPT ![g] = NoLocals]
    /\ UNCHANGED <<now, heap, buckets, config, last, hist, bg>>

StoreTick == Advance(MaxStoreTime)

NextStore ==
    \/ StoreTick
    \/ CallCleanup
    \/ \E g \in Procs : CallGetBucket(g)
    \/ \E g \in Procs : GetBucketTouch(g)
    \/ \E g \in Procs : GetBucketCreate(g)
    \/ \E g \in Procs : DropBucket(g)

SpecStore == InitStore /\ [][NextStore]_vars

\* ------------------------------------------------------------ rateLimiter
\* Requests for one key pass through rateLimiter.Middleware, which calls
\* AllowRequest and so Allow(key): store.GetBucket, bucket.Allow,
\* bucket.Remaining and, when denied, bucket.RetryAfter, each a separate
\* critical section between which the clock, the other requests and Cleanup
\* may run.  The key extractor yields LimiterKey and its policy is enabled.
\* Positions after GetBucket has returned ("have"):
\*   "remaining"  bucket.Allow() has returned, Remaining() not yet called
\*   "retry"      denied: Remaining() was read, RetryAfter() not yet called
\*   "decided"    Allow has returned its Decision (loc[g]) to the Middleware
LimiterKey == "k1"

\* limiter.go: rateLimiter.Allow, the call of store.GetBucket.
LimiterGetBucket(g) == GetBucketLookup(g, LimiterKey)

\* limiter.go: rateLimiter.Allow, allowed := bucket.Allow(). The token count
\* this check left is kept beside the locals (tokensAfterCheck) until
\* Remaining() has been read.
LimiterAllow(g) ==
    /\ pc[g] = "have"
    /\ LET res == Allow(heap[loc[g].entry], now)
       IN /\ heap' = [heap EXCEPT ![loc[g].entry] = res.bucket]
          /\ loc' = [loc EXCEPT ![g] = [key |-> @.key, entry |-> @.entry,
                                        Allowed |-> res.ret,
                                        tokensAfterCheck |-> res.bucket.tokens]]
    /\ pc' = [pc EXCEPT ![g] = "remaining"]
    /\ UNCHANGED <<now, buckets, config, last, hist, bg>>

\* limiter.go: rateLimiter.Allow, the Decision literal: Remaining is
\* bucket.Remaining(), Limit is bucket.Capacity(), RetryAfter is 0. An allowed
\* Decision is returned as it is.
LimiterRemaining(g) ==
    /\ pc[g] = "remaining"
    /\ LET res == Remaining(heap[loc[g].entry], now)
       IN /\ heap' = [heap EXCEPT ![loc[g].entry] = res.bucket]
          /\ loc' = [loc EXCEPT ![g] = [key |-> @.key, entry |-> @.entry,
                                        Allowed |-> @.Allowed,
                                        Remaining |-> res.ret,
                                        Limit |-> Capacity(res.bucket),
                                        RetryAfter |-> 0]]
    /\ pc' = [pc EXCEPT ![g] = IF loc[g].Allowed THEN "decided" ELSE "retry"]
    /\ UNCHANGED <<now, buckets, config, last, hist, bg>>

\* limiter.go: rateLimiter.Allow, if !allowed: decision.RetryAfter =
\* bucket.RetryAfter(); the Decision is returned.
LimiterRetryAfter(g) ==
    /\ pc[g] = "retry"
    /\ LET res == RetryAfter(heap[loc[g].entry], now)
       IN /\ heap' = [heap EXCEPT ![loc[g].entry] = res.bucket]
          /\ loc' = [loc EXCEPT ![g].RetryAfter = res.ret]
    /\ pc' = [pc EXCEPT ![g] = "decided"]
    /\ UNCHANGED <<now, buckets, config, last, hist, bg>>

\* limiter.go: rateLimiter.Middleware, after AllowRequest returned the
\* Decision: the headers, then either 429 with Retry-After or next.ServeHTTP.
MiddlewareRespond(g) ==
    /\ pc[g] = "decided"
    /\ LET decision == loc[g]
           limited == ~decision.Allowed /\ decision.RetryAfter > 0
       IN last' = [op |-> "Middleware",
                   Allowed |-> decision.Allowed,
                   RetryAfter |-> decision.RetryAfter,
                   status |-> IF limited THEN 429 ELSE 200,
                   retryAfterHeader |-> limited,
                   forwarded |-> ~limited]
    /\ pc' = [pc EXCEPT ![g] = "idle"]
    /\ loc' = [loc EXCEPT ![g] = NoLocals]
    /\ UNCHANGED <<now, heap, buckets, config, hist, bg>>

InitLimiter ==
    /\ now = 0
    /\ bg = NoBackground
    /\ heap = <<>>
    /\ buckets = [k \in Keys |-> NoBucket]
    /\ \E r \in RefillRates :
         config = [capacity |-> MaxCapacity, refillRate |-> r, cleanupAge |-> MaxAge,
                   lastCleanup |-> 0]
    /\ pc = [g \in Procs |-> "idle"]
    /\ loc = [g \in Procs |-> NoLocals]
    /\ last = NoCall
    /\ hist = [requested |-> {},
               lastGet |-> [k \in Keys |-> -1],
               lastRet |-> [k \in Keys |-> NoBucket],
               evicted |-> {},
               evictedKeys |-> {}]

NextLimiter ==
    \/ StoreTick
    \/ CallCleanup
    \/ \E g \in Procs : LimiterGetBucket(g)
    \/ \E g \in Procs : GetBucketTouch(g)
    \/ \E g \in Procs : GetBucketCreate(g)
    \/ \E g \in Procs : LimiterAllow(g)
    \/ \E g \in Procs : LimiterRemaining(g)
    \/ \E g \in Procs : LimiterRetryAfter(g)
    \/ \E g \in Procs : MiddlewareRespond(g)

SpecLimiter == InitLimiter /\ [][NextLimiter]_vars

\* --------------------------------------------- rateLimiter, several keys
\* Callers pass any key, the empty one included, to rateLimiter.Allow and to
\* store.GetBucket; every accepted call then runs the steps of the pipeline
\* above on its own key.  Cleanup is disabled (cleanupAge = 0) and the
\* limiter has the capacity of the repository's test of two keys.
AllKeys == Keys \cup {""}

\* limiter.go: TestRateLimiter_Allow_DifferentKeys builds its limiter with
\* WithDefaults(2, 1.0).
DifferentKeysCapacity == 2

\* A GetBucket that builds the bucket before it looks at the key.
GetBucketValidateLate(g, key) ==
    IF key = ""
    THEN /\ pc[g] = "idle"
         /\ heap' = Append(heap, NewBucket(config.capacity, config.refillRate, now))
         /\ last' = [op |-> "GetBucket", ret |-> NoBucket, err |-> "ErrInvalidKey"]
         /\ UNCHANGED <<now, buckets, config, pc, loc, hist, bg>>
    ELSE GetBucketLookup(g, key)

\* unnamed/part_001: InMemoryStore.GetBucket(key) from its entry: the empty key is
\* refused with ErrInvalidKey before any lock is taken; any other key goes on
\* to the lookup.
GetBucket(g, key) ==
    IF key = ""
    THEN /\ pc[g] = "idle"
         /\ last' = [op |-> "GetBucket", ret |-> NoBucket, err |-> "ErrInvalidKey"]
         /\ UNCHANGED <<now, heap, buckets, config, pc, loc, hist, bg>>
    ELSE GetBucketLookup(g, key)

\* limiter.go: rateLimiter.Allow(key) from its entry: the empty key is refused
\* with ErrInvalidKey and a nil Decision before the store is consulted; any
\* other key goes on to store.GetBucket.
LimiterAllowKey(g, key) ==
    IF key = ""
    THEN /\ pc[g] = "idle"
         /\ last' = [op |-> "Allow", ret |-> NoBucket, err |-> "ErrInvalidKey"]
         /\ UNCHANGED <<now, heap, buckets, config, pc, loc, hist, bg>>
    ELSE GetBucket(g, key)

\* A caller invokes limiter.Allow with some key.
CallAllow(g) == \E key \in AllKeys : LimiterAllowKey(g, key)

\* A caller invokes store.GetBucket("") directly.
CallGetBucketEmpty(g) == GetBucket(g, "")

InitKeys ==
    /\ now = 0
    /\ bg = NoBackground
    /\ heap = <<>>
    /\ buckets = [k \in Keys |-> NoBucket]
    /\ config = [capacity |-> DifferentKeysCapacity, refillRate |-> 1, cleanupAge |-> 0,
                 lastCleanup |-> 0]
    /\ pc = [g \in Procs |-> "idle"]
    /\ loc = [g \in Procs |-> NoLocals]
    /\ last = NoCall
    /\ hist = [requested |-> {},
               lastGet |-> [k \in Keys |-> -1],
               lastRet |-> [k \in Keys |-> NoBucket],
               evicted |-> {},
               evictedKeys |-> {}]

NextKeys ==
    \/ StoreTick
    \/ \E g \in Procs : CallAllow(g)
    \/ \E g \in Procs : CallGetBucketEmpty(g)
    \/ \E g \in Procs : GetBucketTouch(g)
    \/ \E g \in Procs : GetBucketCreate(g)
    \/ \E g \in Procs : LimiterAllow(g)
    \/ \E g \in Procs : LimiterRemaining(g)
    \/ \E g \in Procs : LimiterRetryAfter(g)
    \/ \E g \in Procs : MiddlewareRespond(g)

SpecKeys == InitKeys /\ [][NextKeys]_vars

\* ------------------------------------- core.TokenBucket over MemoryStore
\* hist.issued[g] counts the requests g has served, hist.admitted[k] the
\* requests for key k that were allowed.
\* The stateless path of api.Handler.CheckRateLimit and of
\* middleware.RateLimiter.Middleware: state := store.Get(key);
\* newState, result := bucket.Check(state, time.Now()); store.Set(key, newState).
\* Here `buckets` is MemoryStore.buckets (a sync.Map from key to BucketState)
\* and `config` is the core.Config of the TokenBucket.  Nothing is locked
\* across the three calls.
Nil == [nil |-> TRUE]

\* A Check that hands back the state it was given when it denies.
CheckDropsRefillOnDeny(cfg, state, t) ==
    LET st == IF state = Nil
              THEN [Tokens |-> cfg.Capacity * TokenUnit, LastRefillAt |-> t]
              ELSE state
        elapsed == t - st.LastRefillAt
        tokensToAdd == elapsed * cfg.RefillPerSec
        newTokens == Min(st.Tokens + tokensToAdd, cfg.Capacity * TokenUnit)
    IN IF newTokens >= 1 * TokenUnit
       THEN [state |-> [Tokens |-> newTokens - 1 * TokenUnit, LastRefillAt |-> t],
             result |-> [Allowed |-> TRUE, Remaining |-> newTokens - 1 * TokenUnit,
                         RetryAfterMs |-> 0, Limit |-> cfg.Capacity]]
       ELSE LET tokensNeeded == 1 * TokenUnit - newTokens
                retryAfterMs == (tokensNeeded + cfg.RefillPerSec - 1) \div cfg.RefillPerSec
            IN [state |-> st,
                result |-> [Allowed |-> FALSE, Remaining |-> 0,
                            RetryAfterMs |-> retryAfterMs, Limit |-> cfg.Capacity]]

\* unnamed/part_007 (package core): TokenBucket.Check. The state passed in is
\* not modified; math.Ceil rounds the retry time up to whole ticks (toward
\* zero when a negative RefillPerSec makes the quotient negative).
Check(cfg, state, t) ==
    LET st == IF state = Nil
              THEN [Tokens |-> cfg.Capacity * TokenUnit, LastRefillAt |-> t]
              ELSE state
        elapsed == t - st.LastRefillAt
        tokensToAdd == elapsed * cfg.RefillPerSec
        newTokens == Min(st.Tokens + tokensToAdd, cfg.Capacity * TokenUnit)
    IN IF newTokens >= 1 * TokenUnit
       THEN [state |-> [Tokens |-> newTokens - 1 * TokenUnit, LastRefillAt |-> t],
             result |-> [Allowed |-> TRUE, Remaining |-> newTokens - 1 * TokenUnit,
                         RetryAfterMs |-> 0, Limit |-> cfg.Capacity]]
       ELSE LET tokensNeeded == 1 * TokenUnit - newTokens
                retryAfterMs == IF cfg.RefillPerSec > 0
                                THEN (tokensNeeded + cfg.RefillPerSec - 1)
                                         \div cfg.RefillPerSec
                                ELSE -(tokensNeeded \div (-cfg.RefillPerSec))
            IN [state |-> [Tokens |-> newTokens, LastRefillAt |-> t],
                result |-> [Allowed |-> FALSE, Remaining |-> 0,
                            RetryAfterMs |-> retryAfterMs, Limit |-> cfg.Capacity]]

InitStateless ==
    /\ now = 0
    /\ bg = NoBackground
    /\ heap = <<>>
    /\ buckets = [k \in Keys |-> Nil]
    /\ \E c \in Capacities, r \in RefillRates : config = [Capacity |-> c, RefillPerSec |-> r]
    /\ pc = [g \in Procs |-> "idle"]
    /\ loc = [g \in Procs |-> NoLocals]
    /\ last = NoCall
    /\ hist = [issued |-> [g \in Procs |-> 0], admitted |-> [k \in Keys |-> 0]]

\* unnamed/part_000: MemoryStore.Get, called by the handler for the request's key.
HandlerGet(g) ==
    /\ pc[g] = "idle"
    /\ hist.issued[g] < MaxCalls
    /\ \E key \in Keys :
         loc' = [loc EXCEPT ![g] = [key |-> key, state |-> buckets[key]]]
    /\ pc' = [pc EXCEPT ![g] = "got"]
    /\ hist' = [hist EXCEPT !.issued[g] = @ + 1]
    /\ UNCHANGED <<now, heap, buckets, config, last, bg>>

\* unnamed/part_009, middleware/ratelimit.go: newState, result := bucket.Check(state, time.Now()).
HandlerCheck(g) ==
    /\ pc[g] = "got"
    /\ LET res == Check(config, loc[g].state, now)
       IN loc' = [loc EXCEPT ![g] = [key |-> @.key, newState |-> res.state,
                                     result |-> res.result]]
    /\ pc' = [pc EXCEPT ![g] = "checked"]
    /\ UNCHANGED <<now, heap, buckets, config, last, hist, bg>>

\* unnamed/part_000: MemoryStore.Set, called by the handler with the new state; the
\* handler then answers 200 (forwards) or 429 from result.Allowed.
HandlerSet(g) ==
    /\ pc[g] = "checked"
    /\ buckets' = [buckets EXCEPT ![loc[g].key] = loc[g].newState]
    /\ last' = [op |-> "Check", key |-> loc[g].key, Allowed |-> loc[g].result.Allowed,
                status |-> IF loc[g].result.Allowed THEN 200 ELSE 429]
    /\ hist' = [hist EXCEPT !.admitted[loc[g].key] =
                               @ + (IF loc[g].result.Allowed THEN 1 ELSE 0)]
    /\ pc' = [pc EXCEPT ![g] = "idle"]
    /\ loc' = [loc EXCEPT ![g] = NoLocals]
    /\ UNCHANGED <<now, heap, config, bg>>

NextStateless ==
    \/ Tick
    \/ \E g \in Procs : HandlerGet(g)
    \/ \E g \in Procs : HandlerCheck(g)
    \/ \E g \in Procs : HandlerSet(g)

SpecStateless == InitStateless /\ [][NextStateless]_vars

\* ------------------------------------------------- one sequential caller
\* A single caller builds one of the rate limiters and then issues
\* single-token checks one after the other, the clock advancing in between:
\*   "bucket"  NewBucket(capacity, refillRate), then bucket.Allow()
\*   "store"   NewInMemoryStore(config, cleanupAge) or
\*             NewRateLimiter(WithDefaults(capacity, refillRate)), then one
\*             GetBucket(LimiterKey) and bucket.Allow() on the bucket returned
\*   "core"    core.NewTokenBucket(config) over store.NewMemoryStore(), then
\*             Get / Check / Set for LimiterKey
\* Constructors are called with valid and invalid arguments.
\* Observations kept in hist, beside those of the store:
\*   kind           what was built ("none": nothing yet)
\*   createdAt      time the bucket was built ("bucket", "core")
\*   firstIssued    checks made at the instant the bucket was built
\*   firstAdmitted  those of them that were admitted
\*   drainedAt      time of the last check that left exactly 0 tokens (-1: the
\*                  bucket was not left empty by the checks before the burst)
\*   burstAt        instant (after drainedAt) of the checks that followed
\*   burstIssued    checks made at burstAt
\*   burstAdmitted  those of them that were admitted
Caller == "g1"
CapacityInputs == -1..MaxCapacity
RateInputs == {-1, 0} \cup RefillRates

\* A validation that tests the refill rate before the capacity.
NewBucketErrorRateFirst(capacity, refillRate) ==
    IF refillRate <= 0 THEN "ErrNegativeRefillRate"
    ELSE IF capacity <= 0 THEN "ErrNegativeCapacity"
    ELSE "nil"

\* token_bucket.go: NewBucket, the error it returns.
NewBucketError(capacity, refillRate) ==
    IF capacity <= 0 THEN "ErrNegativeCapacity"
    ELSE IF refillRate <= 0 THEN "ErrNegativeRefillRate"
    ELSE "nil"

\* unnamed/part_001: NewInMemoryStore, the error it returns.
NewInMemoryStoreError(capacity, refillRate) ==
    IF capacity <= 0 THEN "ErrNegativeCapacity"
    ELSE IF refillRate <= 0 THEN "ErrNegativeRefillRate"
    ELSE "nil"

\* unnamed/part_002: WithDefaults, the error its option returns.
WithDefaultsError(capacity, refillRate) ==
    IF capacity <= 0 THEN "ErrNegativeCapacity"
    ELSE IF refillRate <= 0 THEN "ErrNegativeRefillRate"
    ELSE "nil"

InitSingle ==
    /\ now = 0
    /\ bg = NoBackground
    /\ heap = <<>>
    /\ buckets = [k \in Keys |-> NoBucket]
    /\ config = NoConfig
    /\ pc = [g \in Procs |-> "idle"]
    /\ loc = [g \in Procs |-> NoLocals]
    /\ last = NoCall
    /\ hist = [kind |-> "none",
               requested |-> {},
               lastGet |-> [k \in Keys |-> -1],
               lastRet |-> [k \in Keys |-> NoBucket],
               evicted |-> {},
               evictedKeys |-> {},
               createdAt |-> -1, firstIssued |-> 0, firstAdmitted |-> 0,
               drainedAt |-> -1, burstAt |-> -1, burstIssued |-> 0, burstAdmitted |-> 0]

\* The record of a constructor call.
Constructed(op, capacity, refillRate, err) ==
    [op |-> op, capacity |-> capacity, refillRate |-> refillRate, err |-> err,
     built |-> (err = "nil")]

\* token_bucket.go: the caller calls NewBucket(capacity, refillRate).
CallNewBucket ==
    /\ hist.kind = "none"
    /\ \E capacity \in CapacityInputs, refillRate \in RateInputs :
         LET err == NewBucketError(capacity, refillRate)
         IN /\ last' = Constructed("NewBucket", capacity, refillRate, err)
            /\ IF err = "nil"
               THEN /\ heap' = <<NewBucket(capacity, refillRate, now)>>
                    /\ hist' = [hist EXCEPT !.kind = "bucket", !.createdAt = now]
               ELSE UNCHANGED <<heap, hist>>
    /\ UNCHANGED <<now, buckets, config, pc, loc, bg>>

\* unnamed/part_001: the caller calls NewInMemoryStore(config, cleanupAge).
CallNewInMemoryStore ==
    /\ hist.kind = "none"
    /\ \E capacity \in CapacityInputs, refillRate \in RateInputs, age \in CleanupAges :
         LET err == NewInMemoryStoreError(capacity, refillRate)
         IN /\ last' = Constructed("NewInMemoryStore", capacity, refillRate, err)
            /\ IF err = "nil"
               THEN /\ config' = [capacity |-> capacity, refillRate |-> refillRate,
                                  cleanupAge |-> age, lastCleanup |-> now]
                    /\ hist' = [hist EXCEPT !.kind = "store"]
               ELSE UNCHANGED <<config, hist>>
    /\ UNCHANGED <<now, heap, buckets, pc, loc, bg>>

\* limiter.go, unnamed/part_002: the caller calls
\* NewRateLimiter(WithDefaults(capacity, refillRate)). A failing option makes
\* NewRateLimiter return no limiter; otherwise the default store is built
\* from the option's values with the default cleanupAge.
CallWithDefaults ==
    /\ hist.kind = "none"
    /\ \E capacity \in CapacityInputs, refillRate \in RateInputs :
         LET err == WithDefaultsError(capacity, refillRate)
         IN /\ last' = Constructed("WithDefaults", capacity, refillRate, err)
            /\ IF err = "nil"
               THEN /\ config' = [capacity |-> capacity, refillRate |-> refillRate,
                                  cleanupAge |-> MaxAge, lastCleanup |-> now]
                    /\ hist' = [hist EXCEPT !.kind = "store"]
               ELSE UNCHANGED <<config, hist>>
    /\ UNCHANGED <<now, heap, buckets, pc, loc, bg>>

\* unnamed/part_007, unnamed/part_000: the caller calls core.NewTokenBucket(config)
\* and store.NewMemoryStore(); neither validates anything.
CallNewTokenBucket ==
    /\ hist.kind = "none"
    /\ \E capacity \in Capacities, refillRate \in RefillRates :
         config' = [Capacity |-> capacity, RefillPerSec |-> refillRate]
    /\ buckets' = [k \in Keys |-> Nil]
    /\ hist' = [hist EXCEPT !.kind = "core"]
    /\ last' = [op |-> "NewTokenBucket"]
    /\ UNCHANGED <<now, heap, pc, loc, bg>>

\* The capacity of what the caller built.
BuiltCapacity ==
    IF hist.kind = "bucket" THEN heap[1].capacity
    ELSE IF hist.kind = "store" THEN config.capacity
    ELSE config.Capacity

\* The refill rate of what the caller built.
BuiltRate ==
    IF hist.kind = "bucket" THEN heap[1].refillRate
    ELSE IF hist.kind = "store" THEN config.refillRate
    ELSE config.RefillPerSec

\* The instant the caller's bucket was built; for a store, the instant its
\* one GetBucket call returned the bucket it had just made.
CreatedAt ==
    IF hist.kind = "store" THEN hist.lastGet[LimiterKey] ELSE hist.createdAt

\* The check at hand comes after a drain and at the instant of the burst.
InBurst(h, t) == h.drainedAt >= 0 /\ t > h.drainedAt /\ h.burstAt \in {-1, t}

\* The observations after a single-token check made at time t that returned
\* `allowed` and left tokensAfter in the bucket built at time `created`.
Observe(h, created, allowed, tokensAfter, t) ==
    LET one == IF allowed THEN 1 ELSE 0
        h1 == IF t = created
              THEN [h EXCEPT !.firstIssued = @ + 1, !.firstAdmitted = @ + one]
              ELSE h
    IN IF InBurst(h, t)
       THEN [h1 EXCEPT !.burstAt = t, !.burstIssued = @ + 1, !.burstAdmitted = @ + one]
       ELSE [h1 EXCEPT !.drainedAt = IF tokensAfter = 0 THEN t ELSE -1,
                       !.burstAt = -1, !.burstIssued = 0, !.burstAdmitted = 0]

\* The caller may make one check more than the capacity at the instant of
\* creation and at the instant of a burst.
MayCheck(created) ==
    /\ now = created => hist.firstIssued <= BuiltCapacity
    /\ InBurst(hist, now) => hist.burstIssued <= BuiltCapacity

\* unnamed/part_001: the caller's one store.GetBucket(LimiterKey).
SingleGetBucket ==
    /\ hist.kind = "store"
    /\ GetBucket(Caller, LimiterKey)

\* unnamed/part_001: that call's slow path (the key is new).
SingleGetBucketCreate ==
    /\ hist.kind = "store"
    /\ GetBucketCreate(Caller)

\* token_bucket.go: the caller calls bucket.Allow() on the bucket it built or
\* was handed by GetBucket.
SingleAllow ==
    /\ \/ hist.kind = "bucket"
       \/ hist.kind = "store" /\ pc[Caller] = "have"
    /\ MayCheck(CreatedAt)
    /\ LET entry == IF hist.kind = "bucket" THEN 1 ELSE loc[Caller].entry
           res == Allow(heap[entry], now)
       IN /\ heap' = [heap EXCEPT ![entry] = res.bucket]
          /\ hist' = Observe(hist, CreatedAt, res.ret, res.bucket.tokens, now)
          /\ last' = [op |-> "Allow", ret |-> res.ret]
    /\ UNCHANGED <<now, buckets, config, pc, loc, bg>>

\* unnamed/part_009, middleware/ratelimit.go: one request for LimiterKey served
\* from start to end: state := store.Get(key); newState, result :=
\* bucket.Check(state, time.Now()); store.Set(key, newState).
SingleCheck ==
    /\ hist.kind = "core"
    /\ LET state == buckets[LimiterKey]
           created == IF state = Nil THEN now ELSE hist.createdAt
           res == Check(config, state, now)
       IN /\ MayCheck(created)
          /\ buckets' = [buckets EXCEPT ![LimiterKey] = res.state]
          /\ hist' = Observe([hist EXCEPT !.createdAt = created], created,
                             res.result.Allowed, res.state.Tokens, now)
          /\ last' = [op |-> "Check", ret |-> res.result.Allowed]
    /\ UNCHANGED <<now, heap, config, pc, loc, bg>>

NextSingle ==
    \/ Tick
    \/ CallNewBucket
    \/ CallNewInMemoryStore
    \/ CallWithDefaults
    \/ CallNewTokenBucket
    \/ SingleGetBucket
    \/ SingleGetBucketCreate
    \/ SingleAllow
    \/ SingleCheck

SpecSingle == InitSingle /\ [][NextSingle]_vars

\* ----------------------------------------------------- background cleanup
\* InMemoryStore.StartBackgroundCleanup(interval) and the function it returns.
\* bg holds what the call creates:
\*   handle    "none" not called yet; "noop" it returned func() {};
\*             "close" it returned the closure that closes done
\*   interval  the argument
\*   ticker    time.NewTicker(interval): "running" or "stopped"
\*   tick      ticks waiting in ticker.C (a channel of capacity 1)
\*   done      the done channel: "open" or "closed"
\*   pc        the goroutine: "select" at the select statement, "cleanup"
\*             inside s.Cleanup() (called, not yet returned), "exited"
\*   cancels   times the returned function has been invoked
\*   panicked  an invocation panicked (close of a closed channel)
\* How many clock units an interval spans is left open: a tick may become
\* available at any moment while the ticker runs.  Each goroutine of Procs
\* makes one GetBucket call and keeps the bucket.
Intervals == 0..MaxInterval

InitBackground ==
    /\ now = 0
    /\ bg = NoBackground
    /\ heap = <<>>
    /\ buckets = [k \in Keys |-> NoBucket]
    /\ \E a \in CleanupAges :
         config = [capacity |-> MaxCapacity, refillRate |-> 1, cleanupAge |-> a,
                   lastCleanup |-> 0]
    /\ pc = [g \in Procs |-> "idle"]
    /\ loc = [g \in Procs |-> NoLocals]
    /\ last = NoCall
    /\ hist = [requested |-> {},
               lastGet |-> [k \in Keys |-> -1],
               lastRet |-> [k \in Keys |-> NoBucket],
               evicted |-> {},
               evictedKeys |-> {}]

\* unnamed/part_001: StartBackgroundCleanup(interval), up to its return.
StartBackgroundCleanup ==
    /\ bg.handle = "none"
    /\ \E interval \in Intervals :
         bg' = IF config.cleanupAge = 0 \/ interval = 0
               THEN [bg EXCEPT !.handle = "noop", !.interval = interval]
               ELSE [bg EXCEPT !.handle = "close", !.interval = interval,
                               !.ticker = "running", !.done = "open", !.pc = "select"]
    /\ UNCHANGED <<now, heap, buckets, config, pc, loc, last, hist>>

\* The runtime puts a tick into ticker.C; a tick that finds the channel full
\* is dropped.
TickerFire ==
    /\ bg.ticker = "running"
    /\ ~bg.panicked
    /\ bg.tick = 0
    /\ bg' = [bg EXCEPT !.tick = 1]
    /\ UNCHANGED <<now, heap, buckets, config, pc, loc, last, hist>>

\* unnamed/part_001: the goroutine's select takes case <-ticker.C. When done is
\* closed as well, select picks either ready case.
BackgroundReceiveTick ==
    /\ bg.pc = "select"
    /\ ~bg.panicked
    /\ bg.tick = 1
    /\ bg' = [bg EXCEPT !.tick = 0, !.pc = "cleanup"]
    /\ UNCHANGED <<now, heap, buckets, config, pc, loc, last, hist>>

\* A done case that stops the ticker and goes round the loop again.
BackgroundReceiveDoneNoReturn ==
    /\ bg.pc = "select"
    /\ ~bg.panicked
    /\ bg.done = "closed"
    /\ bg' = [bg EXCEPT !.ticker = "stopped"]
    /\ UNCHANGED <<now, heap, buckets, config, pc, loc, last, hist>>

\* unnamed/part_001: the goroutine's select takes case <-done: ticker.Stop(), return.
BackgroundReceiveDone ==
    /\ bg.pc = "select"
    /\ ~bg.panicked
    /\ bg.done = "closed"
    /\ bg' = [bg EXCEPT !.ticker = "stopped", !.pc = "exited"]
    /\ UNCHANGED <<now, heap, buckets, config, pc, loc, last, hist>>

\* A goroutine that returns after its first s.Cleanup().
BackgroundCleanupOnce ==
    /\ bg.pc = "cleanup"
    /\ ~bg.panicked
    /\ Cleanup
    /\ bg' = [bg EXCEPT !.ticker = "stopped", !.pc = "exited"]

\* unnamed/part_001: the goroutine's s.Cleanup() runs and the loop goes back to
\* the select.
BackgroundCleanup ==
    /\ bg.pc = "cleanup"
    /\ ~bg.panicked
    /\ Cleanup
    /\ bg' = [bg EXCEPT !.pc = "select"]

\* unnamed/part_001: the function StartBackgroundCleanup returned is invoked:
\* func() {} does nothing; the closure runs close(done), which panics on a
\* channel that is already closed and never blocks.
Cancel ==
    /\ bg.handle # "none"
    /\ ~bg.panicked
    /\ bg.cancels < MaxCancels
    /\ bg' = IF bg.handle = "noop"
             THEN [bg EXCEPT !.cancels = @ + 1]
             ELSE IF bg.done = "closed"
                  THEN [bg EXCEPT !.cancels = @ + 1, !.panicked = TRUE]
                  ELSE [bg EXCEPT !.cancels = @ + 1, !.done = "closed"]
    /\ UNCHANGED <<now, heap, buckets, config, pc, loc, last, hist>>

NextBackground ==
    \/ StoreTick
    \/ StartBackgroundCleanup
    \/ TickerFire
    \/ BackgroundReceiveTick
    \/ BackgroundReceiveDone
    \/ BackgroundCleanup
    \/ Cancel
    \/ \E g \in Procs : CallGetBucket(g)
    \/ \E g \in Procs : GetBucketTouch(g)
    \/ \E g \in Procs : GetBucketCreate(g)

SpecBackground == InitBackground /\ [][NextBackground]_vars

\* The clock advances, the ticker keeps ticking, and every goroutine that can
\* take its next step eventually takes it.
SpecBackgroundLive ==
    /\ SpecBackground
    /\ WF_vars(StoreTick)
    /\ WF_vars(TickerFire)
    /\ WF_vars(BackgroundReceiveTick)
    /\ WF_vars(BackgroundCleanup)
    /\ \A g \in Procs : WF_vars(GetBucketTouch(g))
    /\ \A g \in Procs : WF_vars(GetBucketCreate(g))

(***************************************************************************)
(* SpecDirect: the store of SpecBackground whose callers also invoke       *)
(* Cleanup() themselves, as TestInMemoryStore_Cleanup_Disabled does, next  *)
(* to StartBackgroundCleanup and the function it returns.                  *)
(***************************************************************************)
NextDirect ==
    \/ NextBackground
    \/ CallCleanup

SpecDirect == InitBackground /\ [][NextDirect]_vars

(***************************************************************************)
(* SpecLocks: the store and its buckets with their three kinds of mutex    *)
(* made explicit: InMemoryStore.mu (sync.RWMutex), bucketEntry.mu and      *)
(* Bucket.mu.  Every Lock, RLock, Unlock and RUnlock of GetBucket,         *)
(* Cleanup, Count and the Bucket methods is a step of its own, and a       *)
(* goroutine whose lock is not available cannot take its step.             *)
(*   config.readers, config.writer   holders of InMemoryStore.mu           *)
(*   heap[e].entryMu, heap[e].mu     holder of bucketEntry.mu / Bucket.mu  *)
(*   pc[g]                           the lock operation g performs next    *)
(***************************************************************************)
NoOwner == "none"

LockLocals == [key |-> "", entry |-> NoBucket, todo |-> {}, cutoff |-> 0]

\* unnamed/part_001: a bucketEntry and its Bucket, both mutexes unlocked.
NewEntry(capacity, refillRate, t) ==
    LET bucket == NewBucket(capacity, refillRate, t)
    IN [capacity |-> bucket.capacity,
        tokens |-> bucket.tokens,
        refillRate |-> bucket.refillRate,
        lastRefillTime |-> bucket.lastRefillTime,
        lastAccessed |-> t,
        entryMu |-> NoOwner,
        mu |-> NoOwner]

InitLocks ==
    /\ now = 0
    /\ bg = NoBackground
    /\ heap = <<>>
    /\ buckets = [k \in Keys |-> NoBucket]
    /\ \E a \in {0, MaxAge} :
         config = [capacity |-> 1, refillRate |-> TokenUnit, cleanupAge |-> a,
                   lastCleanup |-> 0, readers |-> {}, writer |-> NoOwner]
    /\ pc = [g \in Procs |-> "idle"]
    /\ loc = [g \in Procs |-> LockLocals]
    /\ last = NoCall
    /\ hist = [requested |-> {}]

\* sync.RWMutex: goroutines blocked in Lock(); a pending Lock() holds back
\* every later RLock().
PendingWriters == {g \in Procs : pc[g] \in {"Lock", "cleanupLock"}}

\* sync.RWMutex.RLock returns once no writer holds the lock or waits for it.
CanRLock == config.writer = NoOwner /\ PendingWriters = {}

\* sync.RWMutex.Lock returns once no reader and no writer holds the lock.
CanLock == config.writer = NoOwner /\ config.readers = {}

\* Calls of GetBucket that may still create a bucket.
Creating == {g \in Procs : pc[g] \in {"RLock", "RUnlock", "callLock", "Lock", "recheck"}}

\* unnamed/part_001: GetBucket(key) is called with a valid key.
LockedGetBucketCall(g) ==
    /\ pc[g] = "idle"
    /\ Len(heap) + Cardinality(Creating) < MaxBuckets
    /\ \E key \in Keys :
         loc' = [loc EXCEPT ![g] = [LockLocals EXCEPT !.key = key]]
    /\ pc' = [pc EXCEPT ![g] = "RLock"]
    /\ UNCHANGED <<now, heap, buckets, config, last, hist, bg>>

\* unnamed/part_001: s.mu.RLock().
GetBucketRLock(g) ==
    /\ pc[g] = "RLock"
    /\ CanRLock
    /\ config' = [config EXCEPT !.readers = @ \cup {g}]
    /\ pc' = [pc EXCEPT ![g] = "RUnlock"]
    /\ UNCHANGED <<now, heap, buckets, loc, last, hist, bg>>

\* unnamed/part_001: entry, exists := s.buckets[key]; s.mu.RUnlock().
GetBucketRUnlock(g) ==
    /\ pc[g] = "RUnlock"
    /\ config' = [config EXCEPT !.readers = @ \ {g}]
    /\ loc' = [loc EXCEPT ![g].entry = buckets[loc[g].key]]
    /\ pc' = [pc EXCEPT ![g] = IF buckets[loc[g].key] # NoBucket
                               THEN "entryLock" ELSE "callLock"]
    /\ UNCHANGED <<now, heap, buckets, last, hist, bg>>

\* A fast path that takes the read lock again while it holds entry.mu.
GetBucketEntryLockThenRLock(g) ==
    \/ /\ pc[g] = "entryLock"
       /\ heap[loc[g].entry].entryMu = NoOwner
       /\ heap' = [heap EXCEPT ![loc[g].entry].entryMu = g]
       /\ pc' = [pc EXCEPT ![g] = "revalidate"]
       /\ UNCHANGED <<now, buckets, config, loc, last, hist, bg>>
    \/ /\ pc[g] = "revalidate"
       /\ CanRLock
       /\ pc' = [pc EXCEPT ![g] = "entryUnlock"]
       /\ UNCHANGED <<now, heap, buckets, config, loc, last, hist, bg>>

\* unnamed/part_001: entry.mu.Lock() of the fast path; no other lock is held.
GetBucketEntryLock(g) ==
    /\ pc[g] = "entryLock"
    /\ heap[loc[g].entry].entryMu = NoOwner
    /\ heap' = [heap EXCEPT ![loc[g].entry].entryMu = g]
    /\ pc' = [pc EXCEPT ![g] = "entryUnlock"]
    /\ UNCHANGED <<now, buckets, config, loc, last, hist, bg>>

\* unnamed/part_001: entry.lastAccessed = time.Now(); entry.mu.Unlock();
\* return entry.bucket.
GetBucketEntryUnlock(g) ==
    /\ pc[g] = "entryUnlock"
    /\ heap' = [heap EXCEPT ![loc[g].entry].lastAccessed = now,
                            ![loc[g].entry].entryMu = NoOwner]
    /\ pc' = [pc EXCEPT ![g] = "have"]
    /\ UNCHANGED <<now, buckets, config, loc, last, hist, bg>>

\* unnamed/part_001: the slow path calls s.mu.Lock() and waits.
GetBucketCallLock(g) ==
    /\ pc[g] = "callLock"
    /\ pc' = [pc EXCEPT ![g] = "Lock"]
    /\ UNCHANGED <<now, heap, buckets, config, loc, last, hist, bg>>

\* unnamed/part_001: s.mu.Lock() returns.
GetBucketLock(g) ==
    /\ pc[g] = "Lock"
    /\ CanLock
    /\ config' = [config EXCEPT !.writer = g]
    /\ pc' = [pc EXCEPT ![g] = "recheck"]
    /\ UNCHANGED <<now, heap, buckets, loc, last, hist, bg>>

\* unnamed/part_001: the double-check under the write lock. A missing entry
\* is created and inserted, and the deferred s.mu.Unlock() runs at the return.
GetBucketRecheck(g) ==
    /\ pc[g] = "recheck"
    /\ LET key == loc[g].key
           entry == buckets[key]
       IN IF entry # NoBucket
          THEN /\ loc' = [loc EXCEPT ![g].entry = entry]
               /\ pc' = [pc EXCEPT ![g] = "slowEntryLock"]
               /\ UNCHANGED <<heap, buckets, config>>
          ELSE /\ heap' = Append(heap, NewEntry(config.capacity, config.refillRate, now))
               /\ buckets' = [buckets EXCEPT ![key] = Len(heap) + 1]
               /\ loc' = [loc EXCEPT ![g].entry = Len(heap) + 1]
               /\ config' = [config EXCEPT !.writer = NoOwner]
               /\ pc' = [pc EXCEPT ![g] = "have"]
    /\ UNCHANGED <<now, last, hist, bg>>

\* unnamed/part_001: entry.mu.Lock() of the slow path, with s.mu held.
GetBucketSlowEntryLock(g) ==
    /\ pc[g] = "slowEntryLock"
    /\ heap[loc[g].entry].entryMu = NoOwner
    /\ heap' = [heap EXCEPT ![loc[g].entry].entryMu = g]
    /\ pc' = [pc EXCEPT ![g] = "slowEntryUnlock"]
    /\ UNCHANGED <<now, buckets, config, loc, last, hist, bg>>

\* unnamed/part_001: entry.lastAccessed = time.Now(); entry.mu.Unlock();
\* return entry.bucket, which runs the deferred s.mu.Unlock().
GetBucketSlowEntryUnlock(g) ==
    /\ pc[g] = "slowEntryUnlock"
    /\ heap' = [heap EXCEPT ![loc[g].entry].lastAccessed = now,
                            ![loc[g].entry].entryMu = NoOwner]
    /\ config' = [config EXCEPT !.writer = NoOwner]
    /\ pc' = [pc EXCEPT ![g] = "have"]
    /\ UNCHANGED <<now, buckets, loc, last, hist, bg>>

\* unnamed/part_001: Cleanup() is called: it returns at once when cleanupAge
\* is 0 and calls s.mu.Lock() otherwise.
LockedCleanupCall(g) ==
    /\ pc[g] = "idle"
    /\ pc' = [pc EXCEPT ![g] = IF config.cleanupAge = 0 THEN "idle" ELSE "cleanupLock"]
    /\ UNCHANGED <<now, heap, buckets, config, loc, last, hist, bg>>

\* The next position of Cleanup's range loop: some entry not yet visited, or
\* the end of the loop.
SweepNext(g, todo) ==
    /\ \/ /\ todo = {}
          /\ loc' = [loc EXCEPT ![g].todo = {}, ![g].key = ""]
          /\ pc' = [pc EXCEPT ![g] = "cleanupUnlock"]
       \/ \E key \in todo :
            /\ loc' = [loc EXCEPT ![g].todo = todo \ {key}, ![g].key = key]
            /\ pc' = [pc EXCEPT ![g] = "sweepEntryLock"]

\* unnamed/part_001: Cleanup's s.mu.Lock() returns; now and cutoff are read
\* and the range over s.buckets begins.
CleanupLock(g) ==
    /\ pc[g] = "cleanupLock"
    /\ CanLock
    /\ config' = [config EXCEPT !.writer = g]
    /\ \/ /\ \A k \in Keys : buckets[k] = NoBucket
          /\ loc' = [loc EXCEPT ![g].cutoff = now - config.cleanupAge]
          /\ pc' = [pc EXCEPT ![g] = "cleanupUnlock"]
       \/ \E key \in {k \in Keys : buckets[k] # NoBucket} :
            /\ loc' = [loc EXCEPT ![g].cutoff = now - config.cleanupAge,
                                  ![g].key = key,
                                  ![g].todo = {k \in Keys : buckets[k] # NoBucket} \ {key}]
            /\ pc' = [pc EXCEPT ![g] = "sweepEntryLock"]
    /\ UNCHANGED <<now, heap, buckets, last, hist, bg>>

\* unnamed/part_001: entry.mu.Lock() inside the loop, with s.mu held.
CleanupEntryLock(g) ==
    /\ pc[g] = "sweepEntryLock"
    /\ heap[buckets[loc[g].key]].entryMu = NoOwner
    /\ heap' = [heap EXCEPT ![buckets[loc[g].key]].entryMu = g]
    /\ pc' = [pc EXCEPT ![g] = "sweepEntryUnlock"]
    /\ UNCHANGED <<now, buckets, config, loc, last, hist, bg>>

\* unnamed/part_001: lastAccessed is read, entry.mu.Unlock(), and the entry
\* is deleted when lastAccessed.Before(cutoff); the loop goes on.
CleanupEntryUnlock(g) ==
    /\ pc[g] = "sweepEntryUnlock"
    /\ LET key == loc[g].key
           entry == buckets[key]
       IN /\ heap' = [heap EXCEPT ![entry].entryMu = NoOwner]
          /\ buckets' = IF Expired(heap[entry].lastAccessed, loc[g].cutoff)
                        THEN [buckets EXCEPT ![key] = NoBucket] ELSE buckets
    /\ SweepNext(g, loc[g].todo)
    /\ UNCHANGED <<now, config, last, hist, bg>>

\* unnamed/part_001: s.lastCleanup = now and the deferred s.mu.Unlock().
CleanupUnlock(g) ==
    /\ pc[g] = "cleanupUnlock"
    /\ config' = [config EXCEPT !.writer = NoOwner, !.lastCleanup = now]
    /\ loc' = [loc EXCEPT ![g] = LockLocals]
    /\ pc' = [pc EXCEPT ![g] = "idle"]
    /\ UNCHANGED <<now, heap, buckets, last, hist, bg>>

\* unnamed/part_001: Count() is called.
LockedCountCall(g) ==
    /\ pc[g] = "idle"
    /\ pc' = [pc EXCEPT ![g] = "countRLock"]
    /\ UNCHANGED <<now, heap, buckets, config, loc, last, hist, bg>>

\* unnamed/part_001: Count's s.mu.RLock().
CountRLock(g) ==
    /\ pc[g] = "countRLock"
    /\ CanRLock
    /\ config' = [config EXCEPT !.readers = @ \cup {g}]
    /\ pc' = [pc EXCEPT ![g] = "countRUnlock"]
    /\ UNCHANGED <<now, heap, buckets, loc, last, hist, bg>>

\* unnamed/part_001: return len(s.buckets) and the deferred s.mu.RUnlock().
CountRUnlock(g) ==
    /\ pc[g] = "countRUnlock"
    /\ config' = [config EXCEPT !.readers = @ \ {g}]
    /\ pc' = [pc EXCEPT ![g] = "idle"]
    /\ UNCHANGED <<now, heap, buckets, loc, last, hist, bg>>

\* token_bucket.go: a Bucket method (AllowN, Remaining or RetryAfter) is called
\* on the bucket GetBucket returned; each begins with b.mu.Lock().
LockedBucketCall(g) ==
    /\ pc[g] = "have"
    /\ pc' = [pc EXCEPT ![g] = "bucketLock"]
    /\ UNCHANGED <<now, heap, buckets, config, loc, last, hist, bg>>

\* token_bucket.go: b.mu.Lock() returns.
BucketLock(g) ==
    /\ pc[g] = "bucketLock"
    /\ heap[loc[g].entry].mu = NoOwner
    /\ heap' = [heap EXCEPT ![loc[g].entry].mu = g]
    /\ pc' = [pc EXCEPT ![g] = "bucketUnlock"]
    /\ UNCHANGED <<now, buckets, config, loc, last, hist, bg>>

\* token_bucket.go: the body of the method that was called and its deferred
\* b.mu.Unlock().
BucketUnlock(g) ==
    /\ pc[g] = "bucketUnlock"
    /\ \E op \in {"Allow", "Remaining", "RetryAfter"} :
         LET b == heap[loc[g].entry]
             res == CASE op = "Allow" -> Allow(b, now)
                      [] op = "Remaining" -> Remaining(b, now)
                      [] OTHER -> RetryAfter(b, now)
         IN heap' = [heap EXCEPT ![loc[g].entry] = [res.bucket EXCEPT !.mu = NoOwner]]
    /\ pc' = [pc EXCEPT ![g] = "have"]
    /\ UNCHANGED <<now, buckets, config, loc, last, hist, bg>>

\* The caller drops the *Bucket it was handed.
LockedDropBucket(g) ==
    /\ pc[g] = "have"
    /\ pc' = [pc EXCEPT ![g] = "idle"]
    /\ loc' = [loc EXCEPT ![g] = LockLocals]
    /\ UNCHANGED <<now, heap, buckets, config, last, hist, bg>>

\* A step of a call that goroutine g has begun.
Proceed(g) ==
    \/ GetBucketRLock(g)
    \/ GetBucketRUnlock(g)
    \/ GetBucketEntryLock(g)
    \/ GetBucketEntryUnlock(g)
    \/ GetBucketCallLock(g)
    \/ GetBucketLock(g)
    \/ GetBucketRecheck(g)
    \/ GetBucketSlowEntryLock(g)
    \/ GetBucketSlowEntryUnlock(g)
    \/ CleanupLock(g)
    \/ CleanupEntryLock(g)
    \/ CleanupEntryUnlock(g)
    \/ CleanupUnlock(g)
    \/ CountRLock(g)
    \/ CountRUnlock(g)
    \/ BucketLock(g)
    \/ BucketUnlock(g)

\* A goroutine begins a call.
Begin(g) ==
    \/ LockedGetBucketCall(g)
    \/ LockedCleanupCall(g)
    \/ LockedCountCall(g)
    \/ LockedBucketCall(g)
    \/ LockedDropBucket(g)

\* The clock moves on by more than cleanupAge at any point of any call, so that
\* an entry nobody touched in between is idle at the next Cleanup.
ExpiryTick ==
    /\ now + config.cleanupAge + 1 <= MaxStoreTime
    /\ now' = now + config.cleanupAge + 1
    /\ UNCHANGED <<heap, buckets, config, pc, loc, last, hist, bg>>

NextLocks ==
    \/ ExpiryTick
    \/ \E g \in Procs : Begin(g)
    \/ \E g \in Procs : Proceed(g)

SpecLocks == InitLocks /\ [][NextLocks]_vars

(***************************************************************************)
(* SpecRequests: rateLimiter.AllowRequest and Middleware from the arrival  *)
(* of a request: the key extractor succeeds or fails, the route selects a  *)
(* policy (Config.GetPolicy: the route's own policy, else the defaults),   *)
(* and only an enabled policy reaches rateLimiter.Allow and the store.     *)
(*   config.policies, config.defaults   Config.Policies, Config.Defaults   *)
(***************************************************************************)
Routes == {"/api/limited", "/api/unlimited"}

PolicyConfigs == [Capacity : {MaxCapacity}, Enabled : BOOLEAN]

\* token_bucket_test.go: Config.GetPolicy(route).
GetPolicy(route) ==
    IF route \in DOMAIN config.policies
    THEN config.policies[route]
    ELSE config.defaults

InitRequests ==
    /\ now = 0
    /\ bg = NoBackground
    /\ heap = <<>>
    /\ buckets = [k \in Keys |-> NoBucket]
    /\ \E defaults \in PolicyConfigs :
       \E routes \in SUBSET {"/api/unlimited"} :
       \E policies \in [routes -> PolicyConfigs] :
         config = [capacity |-> MaxCapacity, refillRate |-> 1, cleanupAge |-> 0,
                   lastCleanup |-> 0, policies |-> policies, defaults |-> defaults]
    /\ pc = [g \in Procs |-> "idle"]
    /\ loc = [g \in Procs |-> NoLocals]
    /\ last = NoCall
    /\ hist = [requested |-> {},
               lastGet |-> [k \in Keys |-> -1],
               lastRet |-> [k \in Keys |-> NoBucket],
               evicted |-> {},
               evictedKeys |-> {}]

\* An AllowRequest that goes to rateLimiter.Allow whatever the policy says.
AllowRequestIgnoresEnabled(g, route, key, err) ==
    /\ pc[g] = "idle"
    /\ IF err
       THEN /\ pc' = [pc EXCEPT ![g] = "failed"]
            /\ loc' = [loc EXCEPT ![g] = [key |-> "", entry |-> NoBucket,
                                          err |-> "key extraction failed"]]
            /\ UNCHANGED <<now, heap, buckets, config, last, hist, bg>>
       ELSE GetBucketLookup(g, key)

\* limiter.go: rateLimiter.AllowRequest for a request on `route` whose key
\* extraction yields `key` or fails (err). A failure is returned as an error; a
\* disabled policy is answered with an allowed Decision built from the policy;
\* otherwise rl.Allow(key) begins with store.GetBucket(key).
AllowRequest(g, route, key, err) ==
    /\ pc[g] = "idle"
    /\ LET policy == GetPolicy(route)
       IN IF err
          THEN /\ pc' = [pc EXCEPT ![g] = "failed"]
               /\ loc' = [loc EXCEPT ![g] = [key |-> "", entry |-> NoBucket,
                                             err |-> "key extraction failed"]]
               /\ UNCHANGED <<now, heap, buckets, config, last, hist, bg>>
          ELSE IF ~policy.Enabled
               THEN /\ pc' = [pc EXCEPT ![g] = "decided"]
                    /\ loc' = [loc EXCEPT ![g] = [key |-> key, entry |-> NoBucket,
                                                  Allowed |-> TRUE,
                                                  Remaining |-> policy.Capacity,
                                                  Limit |-> policy.Capacity,
                                                  RetryAfter |-> 0]]
                    /\ UNCHANGED <<now, heap, buckets, config, last, hist, bg>>
               ELSE GetBucketLookup(g, key)

\* A request arrives at the Middleware: its path is one of the routes and the
\* key extractor either yields the client's key or fails.
ServeHTTP(g) ==
    \E route \in Routes, err \in BOOLEAN : AllowRequest(g, route, LimiterKey, err)

\* A Middleware that lets the request through when AllowRequest failed.
MiddlewareErrorFailOpen(g) ==
    /\ pc[g] = "failed"
    /\ last' = [op |-> "Middleware", err |-> loc[g].err, status |-> 200,
                retryAfterHeader |-> FALSE, forwarded |-> TRUE]
    /\ pc' = [pc EXCEPT ![g] = "idle"]
    /\ loc' = [loc EXCEPT ![g] = NoLocals]
    /\ UNCHANGED <<now, heap, buckets, config, hist, bg>>

\* limiter.go: rateLimiter.Middleware, AllowRequest returned an error:
\* http.Error(w, "Internal Server Error", 500) and return.
MiddlewareError(g) ==
    /\ pc[g] = "failed"
    /\ last' = [op |-> "Middleware", err |-> loc[g].err, status |-> 500,
                retryAfterHeader |-> FALSE, forwarded |-> FALSE]
    /\ pc' = [pc EXCEPT ![g] = "idle"]
    /\ loc' = [loc EXCEPT ![g] = NoLocals]
    /\ UNCHANGED <<now, heap, buckets, config, hist, bg>>

NextRequests ==
    \/ StoreTick
    \/ \E g \in Procs : ServeHTTP(g)
    \/ \E g \in Procs : MiddlewareError(g)
    \/ \E g \in Procs : GetBucketTouch(g)
    \/ \E g \in Procs : GetBucketCreate(g)
    \/ \E g \in Procs : LimiterAllow(g)
    \/ \E g \in Procs : LimiterRemaining(g)
    \/ \E g \in Procs : LimiterRetryAfter(g)
    \/ \E g \in Procs : MiddlewareRespond(g)

SpecRequests == InitRequests /\ [][NextRequests]_vars

(***************************************************************************)
(* SpecWindow: one caller makes rateLimiter.Allow(LimiterKey) calls and    *)
(* store.Cleanup() calls one after the other while the clock advances;     *)
(* hist.admitted counts the allowed Decisions since the store was built.   *)
(***************************************************************************)
InitWindow ==
    /\ now = 0
    /\ bg = NoBackground
    /\ heap = <<>>
    /\ buckets = [k \in Keys |-> NoBucket]
    /\ \E c \in Capacities, r \in RefillRates, a \in 1..MaxAge :
         config = [capacity |-> c, refillRate |-> r, cleanupAge |-> a, lastCleanup |-> 0]
    /\ pc = [g \in Procs |-> "idle"]
    /\ loc = [g \in Procs |-> NoLocals]
    /\ last = NoCall
    /\ hist = [requested |-> {},
               lastGet |-> [k \in Keys |-> -1],
               lastRet |-> [k \in Keys |-> NoBucket],
               evicted |-> {},
               evictedKeys |-> {},
               admitted |-> 0]

\* limiter.go: rateLimiter.Allow(LimiterKey) begins with store.GetBucket.
WindowGetBucket == LimiterGetBucket(Caller)

\* unnamed/part_001: that GetBucket's fast path.
WindowGetBucketTouch == GetBucketTouch(Caller)

\* unnamed/part_001: that GetBucket's slow path.
WindowGetBucketCreate == GetBucketCreate(Caller)

\* limiter.go: the rest of rateLimiter.Allow for the one caller: bucket.Allow(),
\* bucket.Remaining(), and bucket.RetryAfter() when denied; the Decision is
\* returned.
WindowAllow ==
    /\ pc[Caller] = "have"
    /\ LET entry == loc[Caller].entry
           allow == Allow(heap[entry], now)
           remaining == Remaining(allow.bucket, now)
           retry == RetryAfter(remaining.bucket, now)
       IN /\ heap' = [heap EXCEPT ![entry] = IF allow.ret THEN remaining.bucket
                                                         ELSE retry.bucket]
          /\ last' = [op |-> "Allow", Allowed |-> allow.ret,
                      Remaining |-> remaining.ret,
                      RetryAfter |-> IF allow.ret THEN 0 ELSE retry.ret]
          /\ hist' = [hist EXCEPT !.admitted = @ + IF allow.ret THEN 1 ELSE 0]
    /\ pc' = [pc EXCEPT ![Caller] = "idle"]
    /\ loc' = [loc EXCEPT ![Caller] = NoLocals]
    /\ UNCHANGED <<now, buckets, config, bg>>

\* unnamed/part_001: the caller invokes store.Cleanup() between two Allow calls.
WindowCleanup ==
    /\ pc[Caller] = "idle"
    /\ CallCleanup

NextWindow ==
    \/ StoreTick
    \/ WindowCleanup
    \/ WindowGetBucket
    \/ WindowGetBucketTouch
    \/ WindowGetBucketCreate
    \/ WindowAllow

SpecWindow == InitWindow /\ [][NextWindow]_vars

(***************************************************************************)
(* SpecPair: the two implementations side by side under one caller.  A     *)
(* signalfence.Bucket (heap[1]) and a core.TokenBucket over a MemoryStore  *)
(* (buckets[LimiterKey]) are built with the same capacity and refill rate  *)
(* and receive the same single-token checks at the same timestamps.        *)
(***************************************************************************)
InitPair ==
    /\ now = 0
    /\ bg = NoBackground
    /\ \E c \in Capacities, r \in RefillRates :
         /\ heap = <<NewBucket(c, r, 0)>>
         /\ config = [Capacity |-> c, RefillPerSec |-> r]
    /\ buckets = [k \in Keys |-> Nil]
    /\ pc = [g \in Procs |-> "idle"]
    /\ loc = [g \in Procs |-> NoLocals]
    /\ last = NoCall
    /\ hist = [requested |-> {}]

\* token_bucket.go, unnamed/part_009: one check at the timestamp now on both:
\* bucket.Allow(), and state := store.Get(key); newState, result :=
\* tb.Check(state, now); store.Set(key, newState).
PairCheck ==
    /\ LET allow == Allow(heap[1], now)
           state == buckets[LimiterKey]
           res == Check(config, state, now)
       IN /\ heap' = [heap EXCEPT ![1] = allow.bucket]
          /\ buckets' = [buckets EXCEPT ![LimiterKey] = res.state]
          /\ last' = [op |-> "PairCheck", at |-> now,
                      allowed |-> allow.ret, Allowed |-> res.result.Allowed]
    /\ UNCHANGED <<now, config, pc, loc, hist, bg>>

NextPair ==
    \/ Tick
    \/ PairCheck

SpecPair == InitPair /\ [][NextPair]_vars

(***************************************************************************)
(* SpecBucketAnyN: the bucket of SpecBucket whose callers also pass        *)
(* AllowN an n that is zero or negative; AllowN does not check its         *)
(* argument.                                                               *)
(***************************************************************************)
\* g calls bucket.AllowN(n) with n <= 0.
BucketAllowNNonPositive(g) ==
    /\ hist.bulk < MaxCalls
    /\ \E n \in (0 - MaxN)..0 :
         LET res == AllowN(TheBucket, n, now)
         IN /\ heap' = [heap EXCEPT ![1] = res.bucket]
            /\ last' = [op |-> "AllowN", n |-> n, before |-> TheBucket, at |-> now,
                        ret |-> res.ret]
            /\ hist' = [hist EXCEPT !.bulk = @ + 1]
    /\ UNCHANGED <<now, buckets, config, pc, loc, bg>>

NextBucketAnyN ==
    \/ NextBucket
    \/ \E g \in Procs : BucketAllowNNonPositive(g)

SpecBucketAnyN == InitBucket /\ [][NextBucketAnyN]_vars

(***************************************************************************)
(* SpecSkew: core.TokenBucket.Check over a MemoryStore entry shared by     *)
(* instances whose clocks disagree: the timestamp passed to Check is any   *)
(* reading, also one earlier than the LastRefillAt another instance        *)
(* stored.  now holds the reading of the latest call.                      *)
(***************************************************************************)
InitSkew ==
    /\ now = 0
    /\ bg = NoBackground
    /\ heap = <<>>
    /\ buckets = [k \in Keys |-> Nil]
    /\ \E c \in Capacities, r \in RefillRates : config = [Capacity |-> c, RefillPerSec |-> r]
    /\ pc = [g \in Procs |-> "idle"]
    /\ loc = [g \in Procs |-> NoLocals]
    /\ last = NoCall
    /\ hist = [requested |-> {}]

\* unnamed/part_009: one request served from start to end by an instance whose
\* clock reads t: state := store.Get(key); newState, result :=
\* bucket.Check(state, t); store.Set(key, newState).
SkewCheck ==
    /\ \E t \in 0..MaxTime :
         LET state == buckets[LimiterKey]
             res == Check(config, state, t)
         IN /\ now' = t
            /\ buckets' = [buckets EXCEPT ![LimiterKey] = res.state]
            /\ last' = [op |-> "Check", at |-> t, before |-> state,
                        Allowed |-> res.result.Allowed]
    /\ UNCHANGED <<heap, config, pc, loc, hist, bg>>

NextSkew == SkewCheck

SpecSkew == InitSkew /\ [][NextSkew]_vars

(***************************************************************************)
(* SpecBackgroundFair: SpecBackground under the scheduling the Go runtime  *)
(* gives the background goroutine.  s.Cleanup() returns (its loop is over  *)
(* a finite map and every lock it waits for is released), and a select     *)
(* with several ready cases picks one of them at random, so a case that is *)
(* ready every time the loop comes back to the select is taken in the end: *)
(* strong fairness, since case <-done is not ready to be taken while the   *)
(* goroutine is inside s.Cleanup().                                        *)
(***************************************************************************)
SpecBackgroundFair ==
    /\ SpecBackground
    /\ WF_vars(BackgroundCleanup)
    /\ SF_vars(BackgroundReceiveDone)

(***************************************************************************)
(* SpecMetrics: one metrics.Metrics shared by the goroutines Procs, which  *)
(* call RecordRequest and GetSnapshot.  The three counters are atomics     *)
(* updated outside m.mu; the per-client map is updated under m.mu.         *)
(*   heap      the Metrics object: the counters and the state of m.mu      *)
(*             (writer: the goroutine holding Lock, readers: the           *)
(*             goroutines holding RLock)                                   *)
(*   buckets   m.clientStats, NoStats for an absent client                 *)
(*   pc[g]     "idle"; inside RecordRequest "outcome" (totalRequests       *)
(*             added), "lock" (outcome counter added, before m.mu.Lock()), *)
(*             "update" (lock held); inside GetSnapshot "loadTotal",       *)
(*             "loadAllowed", "loadBlocked" (RLock held, clients copied,   *)
(*             before the Load of that counter), "return"                  *)
(*   last      the Snapshot the latest GetSnapshot returned                *)
(*   hist      issued[g]: RecordRequest calls g has made                   *)
(* The timestamps of ClientStats and Snapshot are left out.                *)
(***************************************************************************)
NoStats == [nil |-> TRUE]
NoMutex == [writer |-> "", readers |-> {}]

\* unnamed/part_004: NewMetrics.
InitMetrics ==
    /\ now = 0
    /\ bg = NoBackground
    /\ heap = [totalRequests |-> 0, allowedRequests |-> 0, blockedRequests |-> 0,
               mu |-> NoMutex]
    /\ buckets = [k \in Keys |-> NoStats]
    /\ config = NoConfig
    /\ pc = [g \in Procs |-> "idle"]
    /\ loc = [g \in Procs |-> NoLocals]
    /\ last = NoCall
    /\ hist = [issued |-> [g \in Procs |-> 0]]

\* unnamed/part_004: sortByTotalRequests over the copies, as a sequence in
\* descending order of TotalRequests (the order among equal totals is that
\* of the map iteration).
RECURSIVE SortByTotalRequests(_, _)
SortByTotalRequests(stats, ids) ==
    IF ids = {} THEN <<>>
    ELSE LET top == CHOOSE c \in ids :
                        \A d \in ids : stats[c].TotalRequests >= stats[d].TotalRequests
         IN <<[stats[top] EXCEPT !.ClientID = top]>>
                \o SortByTotalRequests(stats, ids \ {top})

\* The clients recorded in m.clientStats.
Recorded == {k \in Keys : buckets[k] # NoStats}

\* unnamed/part_004: RecordRequest(clientID, allowed), m.totalRequests.Add(1).
RecordAddTotal(g) ==
    /\ pc[g] = "idle"
    /\ hist.issued[g] < MaxCalls
    /\ \E clientID \in Keys, allowed \in BOOLEAN :
         loc' = [loc EXCEPT ![g] = [clientID |-> clientID, allowed |-> allowed]]
    /\ heap' = [heap EXCEPT !.totalRequests = @ + 1]
    /\ hist' = [hist EXCEPT !.issued[g] = @ + 1]
    /\ pc' = [pc EXCEPT ![g] = "outcome"]
    /\ UNCHANGED <<now, buckets, config, last, bg>>

\* RecordRequest: m.allowedRequests.Add(1) or m.blockedRequests.Add(1).
RecordAddOutcome(g) ==
    /\ pc[g] = "outcome"
    /\ heap' = IF loc[g].allowed
               THEN [heap EXCEPT !.allowedRequests = @ + 1]
               ELSE [heap EXCEPT !.blockedRequests = @ + 1]
    /\ pc' = [pc EXCEPT ![g] = "lock"]
    /\ UNCHANGED <<now, buckets, config, loc, last, hist, bg>>

\* RecordRequest: m.mu.Lock().
RecordLock(g) ==
    /\ pc[g] = "lock"
    /\ heap.mu = NoMutex
    /\ heap' = [heap EXCEPT !.mu.writer = g]
    /\ pc' = [pc EXCEPT ![g] = "update"]
    /\ UNCHANGED <<now, buckets, config, loc, last, hist, bg>>

\* RecordRequest: the per-client update under the lock, and the deferred
\* m.mu.Unlock().
RecordUpdate(g) ==
    /\ pc[g] = "update"
    /\ LET id == loc[g].clientID
           stats == IF buckets[id] = NoStats
                    THEN [TotalRequests |-> 0, AllowedRequests |-> 0,
                          BlockedRequests |-> 0]
                    ELSE buckets[id]
       IN buckets' = [buckets EXCEPT ![id] =
                        [TotalRequests |-> stats.TotalRequests + 1,
                         AllowedRequests |-> stats.AllowedRequests
                                               + (IF loc[g].allowed THEN 1 ELSE 0),
                         BlockedRequests |-> stats.BlockedRequests
                                               + (IF loc[g].allowed THEN 0 ELSE 1)]]
    /\ heap' = [heap EXCEPT !.mu.writer = ""]
    /\ pc' = [pc EXCEPT ![g] = "idle"]
    /\ loc' = [loc EXCEPT ![g] = NoLocals]
    /\ UNCHANGED <<now, config, last, hist, bg>>

\* unnamed/part_004: GetSnapshot, m.mu.RLock() and the copy of the client
\* stats, sorted.
SnapshotRLock(g) ==
    /\ pc[g] = "idle"
    /\ heap.mu.writer = ""
    /\ heap' = [heap EXCEPT !.mu.readers = @ \cup {g}]
    /\ loc' = [loc EXCEPT ![g] =
                 [TopClients |-> SortByTotalRequests(
                                     [k \in Recorded |->
                                        [ClientID |-> k,
                                         TotalRequests |-> buckets[k].TotalRequests,
                                         AllowedRequests |-> buckets[k].AllowedRequests,
                                         BlockedRequests |-> buckets[k].BlockedRequests]],
                                     Recorded),
                  UniqueClients |-> Cardinality(Recorded)]]
    /\ pc' = [pc EXCEPT ![g] = "loadTotal"]
    /\ UNCHANGED <<now, buckets, config, last, hist, bg>>

\* GetSnapshot: TotalRequests: m.totalRequests.Load().
SnapshotLoadTotal(g) ==
    /\ pc[g] = "loadTotal"
    /\ loc' = [loc EXCEPT ![g] =
                 [TopClients |-> @.TopClients, UniqueClients |-> @.UniqueClients,
                  TotalRequests |-> heap.totalRequests]]
    /\ pc' = [pc EXCEPT ![g] = "loadAllowed"]
    /\ UNCHANGED <<now, heap, buckets, config, last, hist, bg>>

\* GetSnapshot: AllowedRequests: m.allowedRequests.Load().
SnapshotLoadAllowed(g) ==
    /\ pc[g] = "loadAllowed"
    /\ loc' = [loc EXCEPT ![g] =
                 [TopClients |-> @.TopClients, UniqueClients |-> @.UniqueClients,
                  TotalRequests |-> @.TotalRequests,
                  AllowedRequests |-> heap.allowedRequests]]
    /\ pc' = [pc EXCEPT ![g] = "loadBlocked"]
    /\ UNCHANGED <<now, heap, buckets, config, last, hist, bg>>

\* GetSnapshot: BlockedRequests: m.blockedRequests.Load().
SnapshotLoadBlocked(g) ==
    /\ pc[g] = "loadBlocked"
    /\ loc' = [loc EXCEPT ![g] =
                 [TopClients |-> @.TopClients, UniqueClients |-> @.UniqueClients,
                  TotalRequests |-> @.TotalRequests,
                  AllowedRequests |-> @.AllowedRequests,
                  BlockedRequests |-> heap.blockedRequests]]
    /\ pc' = [pc EXCEPT ![g] = "return"]
    /\ UNCHANGED <<now, heap, buckets, config, last, hist, bg>>

\* GetSnapshot: the deferred m.mu.RUnlock() and the return of the Snapshot.
SnapshotReturn(g) ==
    /\ pc[g] = "return"
    /\ heap' = [heap EXCEPT !.mu.readers = @ \ {g}]
    /\ last' = [op |-> "GetSnapshot", by |-> g, ret |-> loc[g]]
    /\ pc' = [pc EXCEPT ![g] = "idle"]
    /\ loc' = [loc EXCEPT ![g] = NoLocals]
    /\ UNCHANGED <<now, buckets, config, hist, bg>>

NextMetrics ==
    \/ \E g \in Procs : RecordAddTotal(g)
    \/ \E g \in Procs : RecordAddOutcome(g)
    \/ \E g \in Procs : RecordLock(g)
    \/ \E g \in Procs : RecordUpdate(g)
    \/ \E g \in Procs : SnapshotRLock(g)
    \/ \E g \in Procs : SnapshotLoadTotal(g)
    \/ \E g \in Procs : SnapshotLoadAllowed(g)
    \/ \E g \in Procs : SnapshotLoadBlocked(g)
    \/ \E g \in Procs : SnapshotReturn(g)

SpecMetrics == InitMetrics /\ [][NextMetrics]_vars

(***************************************************************************)
(* SpecRoutes: the rate limiter whose configuration carries per-route      *)
(* policies, serving the requests of one client on several routes.  The    *)
(* store was built once, by NewRateLimiter, from its own bucket            *)
(* configuration; a route's policy may name another capacity and another   *)
(* refill rate.  StartBackgroundCleanup is not called.                     *)
(* Observations kept in hist, beside those of the store:                   *)
(*   issued[g]    requests g has made                                      *)
(*   route[g]     route of g's current request, until its Allow()          *)
(*   key[g]       key extracted from g's current request, until its Allow()*)
(*   admitted[k]  Allow() calls that returned true for requests of key k   *)
(*   routes[k]    routes on which a request of key k was admitted          *)
(***************************************************************************)
RoutePolicies == [Capacity : {1}, RefillRate : {MaxRate}, Enabled : BOOLEAN]

InitRoutes ==
    /\ now = 0
    /\ bg = NoBackground
    /\ heap = <<>>
    /\ buckets = [k \in Keys |-> NoBucket]
    /\ \E routes \in SUBSET Routes :
       \E policies \in [routes -> RoutePolicies] :
         config = [capacity |-> MaxCapacity, refillRate |-> 1, cleanupAge |-> 0,
                   lastCleanup |-> 0, policies |-> policies,
                   defaults |-> [Capacity |-> MaxCapacity, RefillRate |-> 1,
                                 Enabled |-> TRUE]]
    /\ pc = [g \in Procs |-> "idle"]
    /\ loc = [g \in Procs |-> NoLocals]
    /\ last = NoCall
    /\ hist = [requested |-> {},
               lastGet |-> [k \in Keys |-> -1],
               lastRet |-> [k \in Keys |-> NoBucket],
               evicted |-> {},
               evictedKeys |-> {},
               issued |-> [g \in Procs |-> 0],
               route |-> [g \in Procs |-> ""],
               key |-> [g \in Procs |-> ""],
               admitted |-> [k \in Keys |-> 0],
               routes |-> [k \in Keys |-> {}]]

\* A rate limiter that keeps the buckets of one of the routes apart: a
\* request on it is drawn from another entry of the store.
BucketKeyPerRoute(route, key) ==
    IF route = "/api/unlimited" THEN CHOOSE k \in Keys : k # key ELSE key

\* The key of the store for a request of `key` on `route`.
BucketKey(route, key) == key

\* limiter.go: rateLimiter.AllowRequest for a request on `route` whose key
\* extraction yields `key` or fails (err), up to the fast-path lookup of
\* store.GetBucket(key) that rl.Allow(key) begins with.
RouteAllowRequest(g) ==
    /\ pc[g] = "idle"
    /\ hist.issued[g] < MaxCalls
    /\ \E route \in Routes, key \in {LimiterKey}, err \in BOOLEAN :
         LET policy == GetPolicy(route)
             entry == buckets[BucketKey(route, key)]
             exists == entry # NoBucket
         IN IF err
            THEN /\ pc' = [pc EXCEPT ![g] = "failed"]
                 /\ loc' = [loc EXCEPT ![g] = [key |-> "", entry |-> NoBucket,
                                               err |-> "key extraction failed"]]
                 /\ hist' = [hist EXCEPT !.issued[g] = @ + 1]
            ELSE IF ~policy.Enabled
                 THEN /\ pc' = [pc EXCEPT ![g] = "decided"]
                      /\ loc' = [loc EXCEPT ![g] = [key |-> key, entry |-> NoBucket,
                                                    Allowed |-> TRUE,
                                                    Remaining |-> policy.Capacity,
                                                    Limit |-> policy.Capacity,
                                                    RetryAfter |-> 0]]
                      /\ hist' = [hist EXCEPT !.issued[g] = @ + 1]
                 ELSE /\ pc' = [pc EXCEPT ![g] = IF exists THEN "touch" ELSE "create"]
                      /\ loc' = [loc EXCEPT ![g] =
                                   [key |-> BucketKey(route, key), entry |-> entry,
                                    calledAt |-> now, slow |-> ~exists,
                                    evictedDuring |-> FALSE]]
                      /\ hist' = [hist EXCEPT !.requested = @ \cup {BucketKey(route, key)},
                                              !.issued[g] = @ + 1,
                                              !.route[g] = route,
                                              !.key[g] = key]
    /\ UNCHANGED <<now, heap, buckets, config, last, bg>>

\* limiter.go: rateLimiter.Allow, allowed := bucket.Allow() on the bucket
\* GetBucket returned.
RouteAllow(g) ==
    /\ pc[g] = "have"
    /\ LET res == Allow(heap[loc[g].entry], now)
       IN /\ heap' = [heap EXCEPT ![loc[g].entry] = res.bucket]
          /\ loc' = [loc EXCEPT ![g] = [key |-> @.key, entry |-> @.entry,
                                        Allowed |-> res.ret,
                                        tokensAfterCheck |-> res.bucket.tokens]]
          /\ hist' = [hist EXCEPT
                        !.admitted[hist.key[g]] = @ + (IF res.ret THEN 1 ELSE 0),
                        !.routes[hist.key[g]] =
                            @ \cup (IF res.ret THEN {hist.route[g]} ELSE {}),
                        !.route[g] = "",
                        !.key[g] = ""]
    /\ pc' = [pc EXCEPT ![g] = "remaining"]
    /\ UNCHANGED <<now, buckets, config, last, bg>>

NextRoutes ==
    \/ StoreTick
    \/ \E g \in Procs : RouteAllowRequest(g)
    \/ \E g \in Procs : MiddlewareError(g)
    \/ \E g \in Procs : GetBucketTouch(g)
    \/ \E g \in Procs : GetBucketCreate(g)
    \/ \E g \in Procs : RouteAllow(g)
    \/ \E g \in Procs : LimiterRemaining(g)
    \/ \E g \in Procs : LimiterRetryAfter(g)
    \/ \E g \in Procs : MiddlewareRespond(g)

SpecRoutes == InitRoutes /\ [][NextRoutes]_vars

(***************************************************************************)
(* SpecOverride: the handler of POST /check serving one sequential caller. *)
(* A request may carry its own refill_per_sec, which replaces that of the  *)
(* default policy for this request; core.NewTokenBucket takes the policy   *)
(* as it is.  The default policy is a valid one.                           *)
(*   config    h.defaultPolicy                                             *)
(*   buckets   the MemoryStore: the BucketState kept for each key          *)
(*   last      the latest request: its policy, the state Get returned      *)
(*             (before), time.Now() (at), and what Check returned          *)
(***************************************************************************)
RefillOverrides == {-1} \cup RefillRates

InitOverride ==
    /\ now = 0
    /\ bg = NoBackground
    /\ heap = <<>>
    /\ buckets = [k \in Keys |-> Nil]
    /\ \E c \in Capacities, r \in RefillRates : config = [Capacity |-> c, RefillPerSec |-> r]
    /\ pc = [g \in Procs |-> "idle"]
    /\ loc = [g \in Procs |-> NoLocals]
    /\ last = NoCall
    /\ hist = [requested |-> {}]

\* unnamed/part_009: Handler.CheckRateLimit for a request of LimiterKey, with
\* or without a refill_per_sec of its own: the policy, NewTokenBucket, Get,
\* Check, Set.
OverrideCheckRateLimit ==
    /\ \E policy \in {config} \cup
                     {[config EXCEPT !.RefillPerSec = r] : r \in RefillOverrides} :
         LET state == buckets[LimiterKey]
             res == Check(policy, state, now)
         IN /\ buckets' = [buckets EXCEPT ![LimiterKey] = res.state]
            /\ last' = [op |-> "Check", policy |-> policy, before |-> state,
                        at |-> now, state |-> res.state, result |-> res.result]
    /\ UNCHANGED <<now, heap, config, pc, loc, hist, bg>>

NextOverride ==
    \/ Tick
    \/ OverrideCheckRateLimit

SpecOverride == InitOverride /\ [][NextOverride]_vars

\* ------------------------------------------------------------------ claims

\* The token count the code should hold after the refill of a call made at
\* time `at` on bucket state `b`: min(capacity, tokens + elapsed * rate).
RefilledTokens(b, at) ==
    Min(b.capacity * TokenUnit, b.tokens + (at - b.lastRefillTime) * b.refillRate)

\* C1: while no time has elapsed since the bucket was built and only Allow()
\* calls were made, the number of Allow() calls that returned true is exactly
\* min(capacity, calls made so far) and never more than the capacity; at the
\* end of the run (every goroutine made its MaxCalls calls) that is
\* min(C, N*M).
C1_NoOverAdmission ==
    (now = 0 /\ hist.bulk = 0) =>
        /\ hist.admitted = Min(TheBucket.capacity, SumOver(hist.issued, Procs))
        /\ hist.admitted <= TheBucket.capacity

C1_Witness ==
    /\ now = 0
    /\ hist.bulk = 0
    /\ \A g \in Procs : hist.issued[g] = MaxCalls
    /\ TheBucket.capacity < Cardinality(Procs) * MaxCalls
    /\ hist.admitted = TheBucket.capacity
    /\ last.op = "AllowN" /\ ~last.ret

\* C2: in every state reached by Allow, AllowN(n >= 1), Remaining and
\* RetryAfter calls at non-decreasing times, 0 <= tokens <= capacity.
C2_TokensInRange ==
    /\ TheBucket.tokens >= 0
    /\ TheBucket.tokens <= TheBucket.capacity * TokenUnit

\* A call made after an idle period long enough to overfill the bucket.
C2_Witness ==
    /\ last.op \in {"AllowN", "Remaining", "RetryAfter"}
    /\ last.before.tokens + (last.at - last.before.lastRefillTime) * last.before.refillRate
         > last.before.capacity * TokenUnit
    /\ last.before.tokens < last.before.capacity * TokenUnit

\* C3: AllowN(n) returns true iff the token count after refill is >= n; when
\* true the count is the refilled count minus exactly n, when false it is the
\* refilled count.
C3_AllowNContract ==
    last.op = "AllowN" =>
        LET refilled == RefilledTokens(last.before, last.at)
        IN /\ last.ret <=> (refilled >= last.n * TokenUnit)
           /\ last.ret => TheBucket.tokens = refilled - last.n * TokenUnit
           /\ ~last.ret => TheBucket.tokens = refilled

\* A denied AllowN(n) that leaves a non-zero refilled count (0 < tokens < n).
C3_Witness ==
    /\ last.op = "AllowN"
    /\ ~last.ret
    /\ last.at > last.before.lastRefillTime
    /\ TheBucket.tokens > 0
    /\ TheBucket.tokens < last.n * TokenUnit

\* C4: as long as Cleanup has evicted nothing, goroutines calling GetBucket
\* concurrently create exactly one bucket per key, every caller holds the
\* bucket mapped to its key, and once all calls have returned Count() is the
\* number of distinct keys requested.
C4_OneBucketPerKey ==
    hist.evicted = {} =>
        /\ Len(heap) = Count
        /\ \A g \in Procs : pc[g] = "have" => loc[g].entry = buckets[loc[g].key]
        /\ (\A g \in Procs : pc[g] \in {"idle", "have"}) =>
               Count = Cardinality(hist.requested)

\* Two goroutines that both missed the same unseen key on the fast path and
\* went through the write-lock path hold the one bucket.
C4_Witness ==
    /\ hist.evicted = {}
    /\ \E g1, g2 \in Procs :
         /\ g1 # g2
         /\ pc[g1] = "have" /\ pc[g2] = "have"
         /\ loc[g1].key = loc[g2].key
         /\ loc[g1].slow /\ loc[g2].slow
         /\ loc[g1].entry = loc[g2].entry

\* C5: on the stateless path, concurrent requests for one key with no refill
\* during the run admit at most Capacity requests in total.
C5_StatelessNoOverAdmission ==
    now = 0 => \A k \in Keys : hist.admitted[k] <= config.Capacity

\* The entries a Cleanup() call at this instant has to remove.
IdleKeys ==
    {k \in Keys : /\ buckets[k] # NoBucket
                  /\ heap[buckets[k]].lastAccessed < now - config.cleanupAge}

\* Goroutine g's GetBucket call returns in this step.
Returns(g) == pc[g] \in {"touch", "create"} /\ pc'[g] = "have"

\* C6: with cleanupAge > 0, a Cleanup() removes the entry of every key whose
\* last GetBucket returned more than cleanupAge ago, and Count drops by at
\* least as many; a GetBucket(k) made after k's eviction never returns the
\* evicted bucket, and when it finds k absent it returns a newly allocated
\* bucket, mapped to k, whose tokens equal the capacity.
C6_EvictionCorrectness ==
    [][/\ (Cleanup /\ config.cleanupAge > 0) =>
            LET idle == {k \in Keys : /\ buckets[k] # NoBucket
                                      /\ now - hist.lastGet[k] > config.cleanupAge}
            IN /\ \A k \in idle : buckets'[k] = NoBucket
               /\ Count' <= Count - Cardinality(idle)
       /\ \A g \in Procs :
            (Returns(g) /\ loc[g].key \in hist.evictedKeys /\ ~loc[g].evictedDuring) =>
                /\ loc'[g].entry \notin hist.evicted
                /\ buckets[loc[g].key] = NoBucket =>
                     /\ loc'[g].entry = Len(heap) + 1
                     /\ buckets'[loc[g].key] = loc'[g].entry
                     /\ heap'[loc'[g].entry].tokens = config.capacity * TokenUnit
      ]_vars

\* A drained bucket was evicted and the key's next GetBucket built a full one.
C6_Witness ==
    \E g \in Procs :
        /\ pc[g] = "have"
        /\ loc[g].slow
        /\ loc[g].key \in hist.evictedKeys
        /\ buckets[loc[g].key] = loc[g].entry
        /\ heap[loc[g].entry].tokens = config.capacity * TokenUnit
        /\ \E e \in hist.evicted : heap[e].tokens < config.capacity * TokenUnit

\* C7 as claimed: (cleanup enabled) Cleanup() removes exactly the entries
\* whose lastAccessed is older than now - cleanupAge, never the entry of a key
\* that was passed to GetBucket within the last cleanupAge, and returns the
\* number of entries removed.
C7_NeverRemovesRecentlyRequested ==
    [][(Cleanup /\ config.cleanupAge > 0) =>
          /\ \A k \in Keys : buckets'[k] = IF k \in IdleKeys THEN NoBucket ELSE buckets[k]
          /\ \A k \in Keys :
               (\/ hist.lastGet[k] >= now - config.cleanupAge
                \/ \E g \in Procs : /\ pc[g] \in {"touch", "create"}
                                    /\ loc[g].key = k
                                    /\ loc[g].calledAt >= now - config.cleanupAge)
               => buckets'[k] = buckets[k]
          /\ last'.ret = Count - Count'
      ]_vars

\* C7 as amended: (cleanup enabled) Cleanup() removes exactly the entries
\* whose lastAccessed is older than now - cleanupAge, never an entry whose
\* lastAccessed a GetBucket has set within the last cleanupAge, and returns
\* the number of entries removed.
C7_RemovesExactlyIdle ==
    [][(Cleanup /\ config.cleanupAge > 0) =>
          /\ \A k \in Keys : buckets'[k] = IF k \in IdleKeys THEN NoBucket ELSE buckets[k]
          /\ \A k \in Keys :
               (/\ buckets[k] # NoBucket
                /\ heap[buckets[k]].lastAccessed >= now - config.cleanupAge)
               => buckets'[k] = buckets[k]
          /\ last'.ret = Count - Count'
      ]_vars

\* The last store call was a Cleanup() that removed one entry and kept one.
C7_Witness ==
    /\ last.op = "Cleanup"
    /\ config.cleanupAge > 0
    /\ last.ret = 1
    /\ Count = 1
    /\ Len(heap) = 2

\* C8: every Decision returned by rateLimiter.Allow has RetryAfter = 0 iff
\* Allowed; a denied Decision carries RetryAfter > 0.
C8_RetryAfterZeroIffAllowed ==
    \A g \in Procs :
        pc[g] = "decided" => (loc[g].RetryAfter = 0 <=> loc[g].Allowed)

\* C9: the Middleware forwards to next only requests whose Decision is
\* allowed; a denied request gets 429 with a Retry-After header and is not
\* forwarded.
C9_DeniedNeverForwarded ==
    last.op = "Middleware" =>
        /\ last.forwarded => last.Allowed
        /\ ~last.Allowed => (last.status = 429 /\ last.retryAfterHeader /\ ~last.forwarded)

\* C10: a GetBucket(k) that follows a returned GetBucket(k), with no eviction
\* of k since that return nor during the call, returns the same bucket with
\* its token state as it was (not reset) and leaves the map, so Count(),
\* unchanged.
C10_SameBucketAgain ==
    [][\A g \in Procs :
          LET k == loc[g].key
              prior == IF loc[g].evictedDuring THEN NoBucket ELSE hist.lastRet[k]
          IN (Returns(g) /\ prior # NoBucket) =>
                /\ loc'[g].entry = prior
                /\ heap'[prior].tokens = heap[prior].tokens
                /\ heap'[prior].lastRefillTime = heap[prior].lastRefillTime
                /\ buckets' = buckets
                /\ Count' = Count
      ]_vars

\* A second GetBucket found the bucket of an earlier call, tokens spent.
C10_Witness ==
    \E g \in Procs :
        /\ pc[g] = "have"
        /\ ~loc[g].slow
        /\ hist.lastRet[loc[g].key] = loc[g].entry
        /\ buckets[loc[g].key] = loc[g].entry
        /\ heap[loc[g].entry].tokens < config.capacity * TokenUnit

\* Goroutine g takes a step of a call in this transition.
Steps(g) == pc'[g] # pc[g] \/ loc'[g] # loc[g]

\* The key of the call goroutine g is taking a step of.
StepKey(g) == IF pc[g] = "idle" THEN loc'[g].key ELSE loc[g].key

\* C11: a step of an Allow/GetBucket call on one key leaves every other key's
\* map entry and bucket (tokens, lastRefillTime, lastAccessed) as they were,
\* so a key's tokens change only through its own calls and their refill.
C11_KeysIsolated ==
    [][\A g \in Procs : Steps(g) =>
          \A k \in Keys \ {StepKey(g)} :
              /\ buckets'[k] = buckets[k]
              /\ buckets[k] # NoBucket => heap'[buckets[k]] = heap[buckets[k]]
      ]_vars

\* k1 was drained to empty at time 0 and k2 is still admitted from a full bucket.
C11_Witness ==
    /\ now = 0
    /\ buckets["k1"] # NoBucket
    /\ buckets["k2"] # NoBucket
    /\ buckets["k1"] # buckets["k2"]
    /\ heap[buckets["k1"]].tokens = 0
    /\ \E g \in Procs :
         /\ pc[g] = "remaining"
         /\ loc[g].key = "k2"
         /\ loc[g].Allowed
         /\ heap[buckets["k2"]].tokens = (config.capacity - 1) * TokenUnit

\* A call with the empty key, to the store or to the limiter.
InvalidKeyCall(g) == GetBucket(g, "") \/ LimiterAllowKey(g, "")

\* C12: GetBucket("") and rateLimiter.Allow("") return ErrInvalidKey itself
\* and no bucket, and leave the store as it was: no entry created, Count()
\* the same, no bucket's tokens or lastAccessed changed.
C12_InvalidKeyNoEffect ==
    [][\A g \in Procs : InvalidKeyCall(g) =>
          /\ last'.err = "ErrInvalidKey"
          /\ last'.ret = NoBucket
          /\ buckets' = buckets
          /\ Count' = Count
          /\ heap' = heap
          /\ pc'[g] = "idle"
      ]_vars

\* An empty key was refused while the store held a used bucket.
C12_Witness ==
    /\ last.op \in {"GetBucket", "Allow"}
    /\ last.ret = NoBucket
    /\ Count > 0
    /\ \E k \in Keys : buckets[k] # NoBucket /\ heap[buckets[k]].tokens < config.capacity * TokenUnit

\* C13: NewBucket, NewInMemoryStore and WithDefaults reject capacity <= 0
\* with ErrNegativeCapacity and otherwise refillRate <= 0 with
\* ErrNegativeRefillRate (the capacity is tested first); a rejected call
\* builds nothing; with both values > 0 the call succeeds and what it builds
\* carries the two values.
C13_ConstructorsValidate ==
    last.op \in {"NewBucket", "NewInMemoryStore", "WithDefaults"} =>
        /\ last.capacity <= 0 => last.err = "ErrNegativeCapacity"
        /\ (last.capacity > 0 /\ last.refillRate <= 0) => last.err = "ErrNegativeRefillRate"
        /\ (last.capacity > 0 /\ last.refillRate > 0) => last.err = "nil"
        /\ last.err # "nil" =>
             /\ ~last.built
             /\ hist.kind = "none"
             /\ heap = <<>>
             /\ config = NoConfig
        /\ last.err = "nil" =>
             /\ last.built
             /\ hist.kind = (IF last.op = "NewBucket" THEN "bucket" ELSE "store")
             /\ BuiltCapacity = last.capacity
             /\ BuiltRate = last.refillRate

\* A constructor given a bad capacity and a bad rate reported the capacity.
C13_Witness ==
    /\ last.op = "WithDefaults"
    /\ last.capacity <= 0
    /\ last.refillRate <= 0
    /\ last.err = "ErrNegativeCapacity"
    /\ hist.kind = "none"

\* C14: of the single-token checks made at the instant a bucket was built (by
\* NewBucket, by the first GetBucket of a key, by Check on a nil state), the
\* first C are admitted and the next is denied: admitted = min(C, issued).
C14_NewBucketIsFull ==
    (hist.kind # "none" /\ CreatedAt >= 0) =>
        hist.firstAdmitted = Min(BuiltCapacity, hist.firstIssued)

\* A store's bucket, built after time 0, admitted C checks and denied the next.
C14_Witness ==
    /\ hist.kind = "store"
    /\ CreatedAt > 0
    /\ now = CreatedAt
    /\ hist.firstIssued = BuiltCapacity + 1
    /\ hist.firstAdmitted = BuiltCapacity
    /\ last.op = "Allow"
    /\ ~last.ret

C16_RetryAfterRoundsUp ==
    last.op = "RetryAfter" =>
        LET refilled == RefilledTokens(last.before, last.at)
            rate == last.before.refillRate
        IN last.ret = IF refilled >= 1 * TokenUnit THEN 0
                      ELSE (1 * TokenUnit - refilled + rate - 1) \div rate

\* C17: the Decision of rateLimiter.Allow has Limit equal to the bucket's
\* capacity and Remaining equal to the floor of the token count left by this
\* call's own admission check, whatever the other goroutines do meanwhile.
C17_RemainingIsOwnSnapshot ==
    [][\A g \in Procs : LimiterRemaining(g) =>
          /\ loc'[g].Limit = heap[loc[g].entry].capacity
          /\ loc'[g].Remaining = loc[g].tokensAfterCheck \div TokenUnit
      ]_vars

\* C18: once the cancellation function has been invoked, the background
\* goroutine starts no further Cleanup() call.
C18_NoCleanupAfterCancel ==
    [][BackgroundReceiveTick => bg.cancels = 0]_vars

\* C19: the cancellation function may be invoked more than once; no
\* invocation panics.
C19_CancelIdempotent ==
    ~bg.panicked

\* The background goroutine is alive.
Running == bg.handle = "close" /\ bg.pc \in {"select", "cleanup"}

\* Every GetBucket call has returned, none will follow, and the clock can
\* still pass the idle time of every entry left in the store.
Quiet ==
    /\ \A g \in Procs : pc[g] = "have"
    /\ \A k \in Keys : buckets[k] # NoBucket =>
           heap[buckets[k]].lastAccessed + config.cleanupAge < MaxStoreTime

\* C20: with cleanupAge > 0 and the background cleanup started with
\* interval > 0 and never cancelled, once the keys receive no further
\* GetBucket call every entry is eventually removed: Count reaches 0.
C20_IdleEventuallyRemoved ==
    [](bg.cancels = 0) => ((Running /\ Quiet) ~> (Count = 0))

\* The background goroutine, never cancelled, has emptied the store after
\* the last GetBucket call returned.
C20_Witness ==
    /\ Running
    /\ bg.cancels = 0
    /\ \A g \in Procs : pc[g] = "have"
    /\ Cardinality(hist.evictedKeys) = Cardinality(Keys)
    /\ Count = 0
    /\ last.op = "Cleanup"
    /\ last.ret > 0

\* C21: with cleanupAge == 0 no entry is ever removed: Cleanup() returns 0 and
\* leaves the map (and every entry) unchanged however old the entries are, and
\* StartBackgroundCleanup, also when interval == 0, starts no goroutine and no
\* ticker and returns a function whose calls change nothing.
C21_DisabledCleanupIsInert ==
    /\ [](config.cleanupAge = 0 =>
            /\ hist.evicted = {}
            /\ bg.pc = "none" /\ bg.ticker = "none" /\ bg.done = "none"
            /\ ~bg.panicked)
    /\ [][/\ (CallCleanup /\ config.cleanupAge = 0) =>
               /\ last'.ret = 0
               /\ buckets' = buckets /\ heap' = heap /\ config' = config
          /\ (StartBackgroundCleanup /\ (config.cleanupAge = 0 \/ bg'.interval = 0)) =>
               /\ bg'.handle = "noop"
               /\ bg'.pc = "none" /\ bg'.ticker = "none" /\ bg'.done = "none"
          /\ (Cancel /\ bg.handle = "noop") =>
               /\ bg' = [bg EXCEPT !.cancels = @ + 1]
               /\ buckets' = buckets /\ heap' = heap]_vars

\* Cleanup() has just returned 0 with cleanupAge == 0 while an entry last
\* accessed in the past is in the map, and the no-op function was called.
C21_Witness ==
    /\ config.cleanupAge = 0
    /\ last.op = "Cleanup" /\ last.ret = 0
    /\ \E k \in Keys : buckets[k] # NoBucket /\ heap[buckets[k]].lastAccessed < now
    /\ bg.handle = "noop" /\ bg.cancels > 0

\* Goroutine g is inside a call (neither idle nor merely holding a *Bucket).
InCall(g) == pc[g] \notin {"idle", "have"}

HoldsMapLock(g) == g \in config.readers \/ config.writer = g

HoldsEntryLock(g) == \E e \in 1..Len(heap) : heap[e].entryMu = g

HoldsBucketLock(g) == \E e \in 1..Len(heap) : heap[e].mu = g

\* C22: under every interleaving of GetBucket, Cleanup, Count and the Bucket
\* methods no deadlock is reachable: while some call is in progress some call
\* can take its next step; no goroutine holds the store's map lock while it
\* acquires or holds a Bucket's lock; no goroutine acquires the map lock while
\* it holds an entry lock; and a call that has returned holds no lock.
C22_NoDeadlock ==
    /\ (\E g \in Procs : InCall(g)) => ENABLED (\E g \in Procs : Proceed(g))
    /\ \A g \in Procs :
         /\ (pc[g] = "bucketLock" \/ HoldsBucketLock(g)) =>
               ~HoldsMapLock(g) /\ ~HoldsEntryLock(g)
         /\ HoldsEntryLock(g) =>
               pc[g] \notin {"RLock", "callLock", "Lock", "cleanupLock", "countRLock"}
         /\ ~InCall(g) =>
               ~HoldsMapLock(g) /\ ~HoldsEntryLock(g) /\ ~HoldsBucketLock(g)

\* Cleanup holds the map's write lock and waits for the entry lock that a
\* fast-path GetBucket of another goroutine holds.
C22_Witness ==
    \E g, h \in Procs :
        /\ pc[g] = "sweepEntryLock" /\ config.writer = g
        /\ pc[h] = "entryUnlock" /\ heap[buckets[loc[g].key]].entryMu = h

\* C23: when the policy resolved for the request's route has Enabled == false,
\* AllowRequest returns an allowed Decision without consulting the store: no
\* bucket is created, looked up or touched and no token is consumed; and while
\* no route has an enabled policy the store stays empty however many requests
\* are served.
C23_DisabledPolicyBypassesStore ==
    /\ []((\A route \in Routes : ~GetPolicy(route).Enabled) =>
             Len(heap) = 0 /\ Count = 0 /\ hist.requested = {})
    /\ [][\A g \in Procs : \A route \in Routes :
            (AllowRequest(g, route, LimiterKey, FALSE) /\ ~GetPolicy(route).Enabled) =>
               /\ pc'[g] = "decided"
               /\ loc'[g].Allowed /\ loc'[g].RetryAfter = 0
               /\ loc'[g].Remaining = GetPolicy(route).Capacity
               /\ loc'[g].entry = NoBucket
               /\ heap' = heap /\ buckets' = buckets /\ hist' = hist]_vars

\* A request on a disabled route has been allowed while the key's bucket is
\* drained and a request on an enabled route has just been answered 429.
C23_Witness ==
    /\ buckets[LimiterKey] # NoBucket
    /\ heap[buckets[LimiterKey]].tokens < TokenUnit
    /\ last.op = "Middleware" /\ last.status = 429
    /\ \E g \in Procs : pc[g] = "decided" /\ loc[g].entry = NoBucket /\ loc[g].Allowed

\* C24: when the key extractor fails, AllowRequest returns an error and no
\* Decision and touches no store state, and the Middleware answers 500 without
\* invoking the next handler.
C24_KeyExtractionFailure ==
    [][\A g \in Procs :
         /\ (\E route \in Routes : AllowRequest(g, route, LimiterKey, TRUE)) =>
               /\ pc'[g] = "failed"
               /\ loc'[g].err = "key extraction failed"
               /\ DOMAIN loc'[g] \cap {"Allowed", "Remaining", "Limit", "RetryAfter"} = {}
               /\ heap' = heap /\ buckets' = buckets /\ hist' = hist /\ config' = config
         /\ MiddlewareError(g) =>
               /\ last'.status = 500
               /\ ~last'.forwarded
               /\ heap' = heap /\ buckets' = buckets /\ hist' = hist /\ config' = config]_vars

\* The Middleware has answered 500 for a failed key extraction while the store
\* holds a bucket that requests with a key have used.
C24_Witness ==
    /\ last.op = "Middleware" /\ last.status = 500
    /\ Count > 0
    /\ \E e \in 1..Len(heap) : heap[e].tokens < heap[e].capacity * TokenUnit

\* Two goroutines hold different buckets that GetBucket returned for one key.
TwoBucketsInUse(k) ==
    \E g, h \in Procs :
        /\ pc[g] = "have" /\ pc[h] = "have"
        /\ loc[g].key = k /\ loc[h].key = k
        /\ loc[g].entry # loc[h].entry

\* C25: under every interleaving of GetBucket(k) with Cleanup(), the bucket
\* GetBucket(k) returns is the bucket mapped to k when GetBucket returns, and
\* two different buckets for one key are never held at once.
C25_ReturnsMappedBucket ==
    /\ [](\A k \in Keys : ~TwoBucketsInUse(k))
    /\ [][\A g \in Procs :
            Returns(g) => loc'[g].entry = buckets'[loc[g].key]]_vars

\* C25 as amended: GetBucket(k) returns the bucket it found at its lookup (fast
\* path) or found or inserted under the write lock (slow path); that bucket is
\* the one mapped to k at the return unless a Cleanup deleted k's entry between
\* the fast path's lookup and its lastAccessed update; and two different
\* buckets for one key are held at once only after k's entry was evicted.
C25_ReturnsMappedUnlessEvicted ==
    /\ [](\A k \in Keys : TwoBucketsInUse(k) => k \in hist.evictedKeys)
    /\ [][\A g \in Procs :
            Returns(g) =>
               /\ pc[g] = "touch" => loc'[g].entry = loc[g].entry
               /\ (pc[g] = "create" \/ ~loc[g].evictedDuring) =>
                     loc'[g].entry = buckets'[loc[g].key]]_vars

\* A fast-path GetBucket has just returned the bucket still mapped to its key
\* although a Cleanup has evicted the entry of the other key.
C25_Witness ==
    \E g \in Procs :
        /\ pc[g] = "have" /\ ~loc[g].slow
        /\ last.op = "GetBucket" /\ last.ret = loc[g].entry
        /\ buckets[loc[g].key] = loc[g].entry
        /\ hist.evictedKeys # {} /\ loc[g].key \notin hist.evictedKeys

\* C26: for every sequence of Allow(key) and Cleanup calls and every
\* cleanupAge > 0, the number of Allow calls admitted in a window of length T
\* (here the window from the store's construction to now) is at most
\* capacity + refillRate * T.
C26_WindowBound ==
    hist.admitted * TokenUnit <= config.capacity * TokenUnit + config.refillRate * now

\* C26 as amended: with e evictions of the key's entry in the window, the
\* admitted calls number at most (1 + e) * capacity + refillRate * T: every
\* re-creation after an eviction grants the key a full bucket.
C26_WindowBoundWithEvictions ==
    hist.admitted * TokenUnit <=
       (1 + Cardinality(hist.evicted)) * config.capacity * TokenUnit
       + config.refillRate * now

\* The key's entry was evicted and re-created, and more calls were admitted
\* than capacity + refillRate * T.
C26_Witness ==
    /\ hist.evicted # {}
    /\ Len(heap) = 2
    /\ hist.admitted * TokenUnit > config.capacity * TokenUnit + config.refillRate * now

\* C27: if a check is denied and Bucket.RetryAfter reports the delay d, and no
\* call consumes tokens from the bucket in between, a single-token check made
\* at any time at or after (time of the report + d) is admitted.
C27_RetryDelaySuffices ==
    (/\ last.op = "RetryAfter"
     /\ RefilledTokens(last.before, last.at) < 1 * TokenUnit) =>
        \A t \in (last.at + last.ret)..(last.at + last.ret + MaxTime) :
            Allow(refill(last.before, last.at), t).ret

C29_SameDecisions ==
    last.op = "PairCheck" =>
        /\ last.allowed = last.Allowed
        /\ buckets[LimiterKey] # Nil
        /\ heap[1].tokens = buckets[LimiterKey].Tokens
        /\ heap[1].lastRefillTime = buckets[LimiterKey].LastRefillAt

\* Both implementations have just denied a check made after a partial refill
\* and hold the same fraction of a token.
C29_Witness ==
    /\ last.op = "PairCheck" /\ last.at > 0
    /\ ~last.allowed /\ ~last.Allowed
    /\ heap[1].tokens > 0
    /\ heap[1].tokens = buckets[LimiterKey].Tokens

\* C30: Bucket.AllowN(n) with n <= 0 returns true and never adds tokens: after
\* the call the token count is no greater than its post-refill value and lies
\* within [0, capacity].
C30_NonPositiveNAddsNothing ==
    (last.op = "AllowN" /\ last.n <= 0) =>
        /\ last.ret
        /\ TheBucket.tokens <= RefilledTokens(last.before, last.at)
        /\ TheBucket.tokens >= 0
        /\ TheBucket.tokens <= TheBucket.capacity * TokenUnit

\* C31: core.TokenBucket.Check preserves the token bounds for every input:
\* given a state with 0 <= Tokens <= Capacity and any timestamp, also one
\* earlier than state.LastRefillAt, the returned state has
\* 0 <= Tokens <= Capacity.
C31_CheckKeepsTokensInRange ==
    (/\ last.op = "Check"
     /\ last.before # Nil
     /\ last.before.Tokens >= 0
     /\ last.before.Tokens <= config.Capacity * TokenUnit) =>
        /\ buckets[LimiterKey].Tokens >= 0
        /\ buckets[LimiterKey].Tokens <= config.Capacity * TokenUnit

\* The returned closure has run close(done).
Cancelled == bg.handle = "close" /\ bg.cancels > 0

\* C32: once the cancellation function of a started background cleanup has
\* been invoked, the background goroutine eventually ends: it stops its
\* ticker and returns (or ends with the process, when a further invocation
\* panics); it does not stay in its loop running Cleanup for ever.
C32_CancelledEventuallyExits ==
    /\ Cancelled ~> ((bg.pc = "exited" /\ bg.ticker = "stopped") \/ bg.panicked)
    /\ [](bg.pc = "exited" => (bg.ticker = "stopped" /\ bg.done = "closed"))

\* The goroutine returned after a cancellation that found it between its
\* select and the end of a Cleanup, the ticker stopped, nothing panicked.
C32_Witness ==
    /\ Cancelled
    /\ ~bg.panicked
    /\ bg.pc = "exited"
    /\ bg.ticker = "stopped"
    /\ last.op = "Cleanup"

\* The sum of the TotalRequests of the client copies in a snapshot.
RECURSIVE ClientTotal(_)
ClientTotal(clients) ==
    IF clients = <<>> THEN 0
    ELSE Head(clients).TotalRequests + ClientTotal(Tail(clients))

\* C33: every Snapshot returned by GetSnapshot, also while RecordRequest
\* calls run concurrently, has TotalRequests = AllowedRequests +
\* BlockedRequests, and TotalRequests equal to the sum of the per-client
\* TotalRequests over all recorded clients.
C33_SnapshotConsistent ==
    last.op = "GetSnapshot" =>
        /\ last.ret.TotalRequests = last.ret.AllowedRequests + last.ret.BlockedRequests
        /\ last.ret.TotalRequests = ClientTotal(last.ret.TopClients)

\* The entry of the store that holds key k's bucket.
BucketOf(k) == heap[buckets[k]]

CheckRefilled(policy, state, at) ==
    IF state = Nil
    THEN policy.Capacity * TokenUnit
    ELSE Min(state.Tokens + (at - state.LastRefillAt) * policy.RefillPerSec,
             policy.Capacity * TokenUnit)

\* C35: when Check denies a request (tokens after refill < 1) it returns
\* Allowed = false, Remaining = 0 and RetryAfterMs > 0, and the state it
\* returns holds exactly the refilled token count with LastRefillAt = now:
\* nothing was consumed.
C35_DeniedCheck ==
    (last.op = "Check" /\ CheckRefilled(last.policy, last.before, last.at) < TokenUnit) =>
        /\ ~last.result.Allowed
        /\ last.result.Remaining = 0
        /\ last.result.RetryAfterMs > 0
        /\ last.state = [Tokens |-> CheckRefilled(last.policy, last.before, last.at),
                         LastRefillAt |-> last.at]

\* C36: absent consumption a bucket's token count never decreases: after a
\* Remaining(), a RetryAfter() or a denied AllowN call the token count is at
\* least what it was before the call, and at most the capacity (the clock
\* never runs backwards between calls).
C36_NoDecreaseWithoutConsumption ==
    (\/ last.op \in {"Remaining", "RetryAfter"}
     \/ (last.op = "AllowN" /\ ~last.ret)) =>
        /\ last.at >= last.before.lastRefillTime
        /\ TheBucket.tokens >= last.before.tokens
        /\ TheBucket.tokens <= TheBucket.capacity * TokenUnit

====
